---- MODULE Spec2Model ----
(***************************************************************************)
(* Pose pipeline of DepthPose: the PosePipeline thread (Orchestrator), the *)
(* PoseDetection worker threads (DetectorSlot pool), the angle calculator  *)
(* stage and the output callbacks (OutputDispatcher).                      *)
(***************************************************************************)
EXTENDS Integers, Sequences, FiniteSets, TLC

(***************************************************************************)
(* Bounds of the model.                                                    *)
(***************************************************************************)
\* settings.max_players: the number of detector slots, keys 0..max_players-1
max_players == 2
\* number of cameras whose frames and tracklets reach the pipeline
NumCams == 1
\* number of add_tracklet calls in a run
MaxEvents == 2
\* number of add_tracklet calls in a run whose tracklets all have a detector
MaxSlotEvents == 3
\* number of set_image calls in a run
MaxFrames == 1
\* number of add_pose_callback calls in a run
MaxAdds == 1
\* number of add_pose_callback calls in a run about the output callbacks
MaxCallbackAdds == 3
\* number of add_tracklet calls in a run with a call of stop
MaxStopEvents == 2
\* number of add_tracklet calls in a run in which a callback is added and
\* the pipeline stops
MaxNotifyEvents == 2
\* number of calls of start, and of add_tracklet calls in a run with them
MaxStarts == 3
MaxStartEvents == 2
\* the SyncPlayer: FFmpegPlayers made in a run, files a _load finds, calls
\* of play
MaxFFmpeg == 3
MaxFiles == 1
MaxPlays == 2
\* the Player: calls of start and of stop
MaxPlayerStarts == 3
MaxPlayerStops == 2
\* numbers of add_tracklet and of set_image calls in a run about the frames
MaxCacheEvents == 3
MaxCacheFrames == 3
\* number of cameras whose frames are stored in the runs about the frames
MaxCacheCams == 2
\* number of add_tracklet calls in a run of a pipeline that is never stopped
MaxLiveEvents == 2
\* number of add_tracklet calls in a run about the start of the detectors
MaxSessionEvents == 2
\* number of add_tracklet calls in a run about the rois of the tracklets
MaxRoiEvents == 2
\* image sizes get_crop_rect is called with: 1 .. MaxImageWidth by 1 .. MaxImageHeight
MaxImageWidth == 4
MaxImageHeight == 4
\* the largest width and height of an image that is cropped and cut out
MaxExtractWidth == 11
MaxExtractHeight == 11
\* the largest side of an image and of a square, and the largest distance of
\* a square's corner from the image's, for which pixels are extracted
MaxPadSize == 3
\* the scores of keypoints and the confidence threshold are 0 .. MaxScore steps
MaxScore == 2
\* the roi values get_crop_rect is called with are multiples of 1 / RoiSteps
RoiSteps == 4
\* the expansions get_crop_rect is called with: 0, 1/2, ..., MaxExpansion / 2
MaxExpansion == 2

(***************************************************************************)
(* Input domains.                                                          *)
(***************************************************************************)
\* detector keys: range(self.max_detectors)
DetectorIds == 0 .. (max_players - 1)
\* tracklet ids the tracker may send: the detector keys and one id beyond them
TrackletIds == 0 .. max_players
CamIds == 0 .. (NumCams - 1)
CallbackIds == {"c1", "c2"}
FrameTypes == {"VIDEO", "LEFT_"}
\* TrackingStatus of a tracklet
TrackingStatus == {"NEW", "TRACKED", "LOST", "REMOVED"}
\* Optional[...] = None
None == "None"
\* Optional[np.ndarray] = None for images, which are numbered from 1
NoImage == 0
\* Optional[Rect] = None; a rect that is there is <<rect>>
NoRect == <<>>
\* PoseDetection.onnx_session = None; the sessions LoadSession returns are
\* numbered from 1
NoSession == 0
\* in the place of an image: the call raised instead of returning one
Raises == -1
\* image.shape of the frames of the cameras (powers of two: the floats of the
\* normalized rects are exact)
FrameWidth == 4
FrameHeight == 4
\* self.pose_detector_frame_size
pose_detector_frame_size == 256

VARIABLES
    pose_active,            \* settings.pose_active
    tracklet_input_queue,   \* Queue[Tracklet]
    input_frames,           \* dict[int, np.ndarray]: cam id -> frame (NoImage: no key)
    pose_detectors,         \* keys of dict[int, Detection]
    pose_output_callbacks,  \* set[PoseCallback], as cb -> number of times it is held
    callback_lock,          \* Lock: "free" or the thread holding it
    _detection,             \* PoseDetection._detection of each detector, as a sequence
    _running,               \* PoseDetection._running of each detector
    _callbacks,             \* PoseDetection._callbacks of each detector
    worker,                 \* each detector thread: [pc, job]
    orch,                   \* the PosePipeline thread: [pc, pose, todo]
    angles,                 \* the PoseAngleCalculator thread: [pc, queue, pose, todo]
    time_stamp,             \* number of tracklets handed to add_tracklet so far
    frame_count,            \* number of set_image calls so far
    add_calls,              \* history: number of add_pose_callback calls per callback
    limits,                 \* the numbers of calls the callers make in this run
    remove_calls,           \* history: callbacks remove_pose_callback was called with
    slot_log,               \* history per detector: submits and takes in order
    inferred,               \* history: time stamps of the poses RunSession was entered with
    forwarded,              \* history per detector: time stamps passed to callback()
    notified,               \* history: calls of _notify_pose_callback
    invoked,                \* history: calls of output callbacks
    processed,              \* history: the poses _process built, in order
    _stop_event,            \* PosePipeline._stop_event is set
    stop_call,              \* the caller of PosePipeline.stop: where it is in stop
    set_calls,              \* history: the calls of set_image, in order
    crop_call,              \* a call of Person.get_crop_rect: its arguments and result
    onnx_session,           \* PoseDetection.onnx_session (class attribute), NoSession: None
    session_log,            \* history: LoadSession results assigned, sessions RunSession got
    angle_call,             \* a pose the PoseAngleCalculator computes the angles of
    sync_player,            \* a SyncPlayer, its run loop and the caller of stop
    player,                 \* a Player, its _play threads and its callers
    start_calls             \* history: how each call of PosePipeline.start ended

vars == <<pose_active, tracklet_input_queue, input_frames, pose_detectors,
          pose_output_callbacks, callback_lock, _detection, _running,
          _callbacks, worker, orch, angles, time_stamp, frame_count,
          add_calls, limits, remove_calls, slot_log, inferred, forwarded,
          notified, invoked, processed, _stop_event, stop_call, set_calls,
          crop_call, onnx_session, session_log, angle_call, sync_player, player,
          start_calls>>

(***************************************************************************)
(* Pure helpers.                                                           *)
(***************************************************************************)
\* an is_active that leaves out only the LOST tracklets
is_active_not_lost(tracklet) == tracklet.status # "LOST"

\* Tracklet.is_active: the status is NEW or TRACKED
is_active(tracklet) == tracklet.status \in {"NEW", "TRACKED"}

\* Tracklet.is_removed: the status is REMOVED
is_removed(tracklet) == tracklet.status = "REMOVED"

\* PosePipeline._get_image: the stored frame of camera id, or None
_get_image(frames, id) == IF frames[id] # NoImage THEN frames[id] ELSE NoImage

\* the floats are IEEE 754 doubles: 53 significant bits, kept here as four
\* limbs of 14, 13, 13 and 13 bits, for ints below 2^13 in size. A float is
\* <<sign, exponent, a1, a2, a3, a4>> and stands for
\* sign * (a1 * 2^39 + a2 * 2^26 + a3 * 2^13 + a4) * 2^(exponent - 52)
LimbBits == 13
Limb == 2^LimbBits

\* the float 0.0
Zero == <<0, 0, 0, 0, 0, 0>>

\* 1, 0 or -1 as a is above, at or below b
compare(a, b) == IF a > b THEN 1 ELSE IF a = b THEN 0 ELSE -1

\* the next float away from zero
float_next(sign, exponent, a1, a2, a3, a4) ==
    IF a4 + 1 < Limb THEN <<sign, exponent, a1, a2, a3, a4 + 1>>
    ELSE IF a3 + 1 < Limb THEN <<sign, exponent, a1, a2, a3 + 1, 0>>
    ELSE IF a2 + 1 < Limb THEN <<sign, exponent, a1, a2 + 1, 0, 0>>
    ELSE IF a1 + 1 < 2 * Limb THEN <<sign, exponent, a1 + 1, 0, 0, 0>>
    ELSE <<sign, exponent + 1, Limb, 0, 0, 0>>

\* round to nearest, ties to even: the float of these limbs when what was
\* cut off behind them is below a half of the last place (rest = -1), the next
\* float when it is above (rest = 1), the even one of both at a half
float_round(sign, exponent, a1, a2, a3, a4, rest) ==
    IF rest = 1 \/ (rest = 0 /\ a4 % 2 = 1)
    THEN float_next(sign, exponent, a1, a2, a3, a4)
    ELSE <<sign, exponent, a1, a2, a3, a4>>

\* the exponent of a / d for ints a, d > 0: 2^e <= a / d < 2^(e + 1)
float_exponent(a, d) ==
    CHOOSE e \in -LimbBits .. LimbBits :
        IF e >= 0 THEN d * 2^e <= a /\ a < d * 2^(e + 1)
        ELSE d <= a * 2^(-e) /\ a * 2^(-e) < 2 * d

\* long division: count limbs of r / den for r < den, and how the remainder
\* compares with a half
RECURSIVE long_division(_, _, _)
long_division(r, den, count) ==
    IF count = 0 THEN <<compare(2 * r, den)>>
    ELSE <<(r * Limb) \div den>> \o long_division((r * Limb) % den, den, count - 1)

\* the float of sign * (1 + 0.limbs) * 2^exponent
quotient(sign, exponent, limbs) ==
    float_round(sign, exponent, Limb + limbs[1], limbs[2], limbs[3], limbs[4],
                limbs[5])

\* a / d for ints a, d > 0 with the exponent e
scaled(sign, a, d, e) ==
    IF e < 0 THEN quotient(sign, e, long_division(a * 2^(-e) - d, d, 4))
    ELSE quotient(sign, e, long_division(a - d * 2^e, d * 2^e, 4))

\* n / d for ints n and d > 0: the float nearest to the quotient
float_div(n, d) ==
    IF n = 0 THEN Zero
    ELSE IF n < 0 THEN scaled(-1, -n, d, float_exponent(-n, d))
    ELSE scaled(1, n, d, float_exponent(n, d))

\* the limbs i .. 6 of a float times n, with the carry of those behind:
\* the first limb of the result is not cut to its 14 bits
RECURSIVE times(_, _, _, _)
times(x, n, i, carry) ==
    IF i = 3 THEN <<x[3] * n + carry>>
    ELSE times(x, n, i - 1, (x[i] * n + carry) \div Limb)
            \o <<(x[i] * n + carry) % Limb>>

\* the limbs p shifted to the right, low = 2^s and high = 2^(13 - s) for a
\* shift by s bits, rounded
shift(sign, exponent, p, low, high) ==
    float_round(sign, exponent, p[1] \div low,
                (p[1] % low) * high + p[2] \div low,
                (p[2] % low) * high + p[3] \div low,
                (p[3] % low) * high + p[4] \div low,
                compare(2 * (p[4] % low), low))

\* the limbs p shifted to the right by the s bits the first one has too many
normal(sign, exponent, p, s) ==
    shift(sign, exponent + s, p, 2^s, 2^(LimbBits - s))

\* the number of bits that a first limb has too many
excess(p1) ==
    CHOOSE s \in 0 .. LimbBits : Limb <= p1 \div 2^s /\ p1 \div 2^s < 2 * Limb

\* the float of the product p in limbs
product(sign, exponent, p) == normal(sign, exponent, p, excess(p[1]))

\* x * n for a float x and an int n >= 0: the float nearest to the product
float_mul(x, n) ==
    IF x = Zero \/ n = 0 THEN Zero
    ELSE product(x[1], x[2], times(x, n, 6, 0))

\* int(x) for a float x below 2^27 in size: x truncated toward zero
float_int(x) ==
    IF x = Zero \/ x[2] < 0 THEN 0
    ELSE IF x[2] <= LimbBits THEN x[1] * (x[3] \div 2^(LimbBits - x[2]))
         ELSE x[1] * ((x[3] * Limb + x[4]) \div 2^(2 * LimbBits - x[2]))

\* the float n / d
Fraction(n, d) == float_div(n, d)

\* value is the float that is written n / d
Equals(value, n, d) == value = float_div(n, d)

\* int(value * size) for a float value and an int size
int_product(value, size) == float_int(float_mul(value, size))

max(a, b) == IF a >= b THEN a ELSE b

min(a, b) == IF a <= b THEN a ELSE b

\* Rect(x, y, width, height), normalized to the image
Rect(x, y, width, height) == [x |-> x, y |-> y, width |-> width, height |-> height]

\* a roi in pixels of an image: int(roi.x * image_width), ...
roi_pixels(image_width, image_height, roi) ==
    [x |-> int_product(roi.x, image_width), y |-> int_product(roi.y, image_height),
     w |-> int_product(roi.width, image_width),
     h |-> int_product(roi.height, image_height)]

\* img_wh += int(img_wh * expansion)
expanded(img_wh, expansion) == img_wh + int_product(expansion, img_wh)

\* the square of side img_wh centered on the roi img in pixels
centered(img, img_wh) ==
    [crop_center_x |-> img.x + img.w \div 2, crop_center_y |-> img.y + img.h \div 2,
     crop_x |-> img.x + img.w \div 2 - img_wh \div 2,
     crop_y |-> img.y + img.h \div 2 - img_wh \div 2,
     crop_w |-> img_wh, crop_h |-> img_wh]

\* the square of the roi img in pixels: its side is the longer side of the
\* roi, expanded
squared(img, expansion) == centered(img, expanded(max(img.w, img.h), expansion))

\* a crop_square that expands the sides of the roi and does not square them
crop_square_sides(image_width, image_height, roi, expansion) ==
    LET img == roi_pixels(image_width, image_height, roi)
        crop_w == img.w + int_product(expansion, img.w)
        crop_h == img.h + int_product(expansion, img.h)
        crop_center_x == img.x + img.w \div 2
        crop_center_y == img.y + img.h \div 2
    IN  [crop_center_x |-> crop_center_x, crop_center_y |-> crop_center_y,
         crop_x |-> crop_center_x - crop_w \div 2,
         crop_y |-> crop_center_y - crop_h \div 2,
         crop_w |-> crop_w, crop_h |-> crop_h]

\* a crop_square that puts the square half a side left of the roi's corner
\* and not of its center
crop_square_corner(image_width, image_height, roi, expansion) ==
    LET img == roi_pixels(image_width, image_height, roi)
        side == max(img.w, img.h)
        img_wh == side + int_product(expansion, side)
        crop_center_x == img.x + img.w \div 2
        crop_center_y == img.y + img.h \div 2
    IN  [crop_center_x |-> crop_center_x, crop_center_y |-> crop_center_y,
         crop_x |-> img.x - img_wh \div 2,
         crop_y |-> crop_center_y - img_wh \div 2,
         crop_w |-> img_wh, crop_h |-> img_wh]

\* Person.get_crop_rect up to the square in pixels: its center, its top left
\* corner and its sides
crop_square(image_width, image_height, roi, expansion) ==
    squared(roi_pixels(image_width, image_height, roi), expansion)

\* the square in pixels converted back to normalized coordinates
normalized(image_width, image_height, square) ==
    Rect(Fraction(square.crop_x, image_width), Fraction(square.crop_y, image_height),
         Fraction(square.crop_w, image_width), Fraction(square.crop_h, image_height))

\* Person.get_crop_rect: the square, converted back to normalized coordinates
get_crop_rect(image_width, image_height, roi, expansion) ==
    normalized(image_width, image_height,
               crop_square(image_width, image_height, roi, expansion))

\* the part of the image that is cut out for the roi crop in pixels, and the
\* paddings around it
padded(image_width, image_height, crop) ==
    [x |-> crop.x, y |-> crop.y, w |-> crop.w, h |-> crop.h,
     img_x |-> max(0, crop.x), img_y |-> max(0, crop.y),
     img_w |-> min(crop.w + min(0, crop.x), image_width - max(0, crop.x)),
     img_h |-> min(crop.h + min(0, crop.y), image_height - max(0, crop.y)),
     left_padding |-> -min(0, crop.x), top_padding |-> -min(0, crop.y),
     right_padding |-> max(0, crop.x + crop.w - image_width),
     bottom_padding |-> max(0, crop.y + crop.h - image_height)]

\* Person.get_cropped_image up to the cut-out: the roi in pixels, the part of
\* the image that is cut out and the paddings around it
cut_out(image_width, image_height, roi) ==
    padded(image_width, image_height, roi_pixels(image_width, image_height, roi))

\* numpy's image[start:stop] along an axis of length size, for start >= 0:
\* a negative stop counts from the end, and both are cut to the axis
slice(size, start, stop) ==
    [start |-> min(start, size),
     stop |-> max(min(start, size),
                  IF stop < 0 THEN max(0, stop + size) ELSE min(stop, size))]

\* Person.get_cropped_image after the cut-out: the columns and rows of the
\* image that crop = image[img_y:img_y + img_h, img_x:img_x + img_w] holds,
\* and the width and height of crop with the borders that copyMakeBorder
\* puts around it
bordered(image_width, image_height, cut) ==
    [cols |-> slice(image_width, cut.img_x, cut.img_x + cut.img_w),
     rows |-> slice(image_height, cut.img_y, cut.img_y + cut.img_h),
     width |-> cut.left_padding + cut.right_padding
               + slice(image_width, cut.img_x, cut.img_x + cut.img_w).stop
               - slice(image_width, cut.img_x, cut.img_x + cut.img_w).start,
     height |-> cut.top_padding + cut.bottom_padding
                + slice(image_height, cut.img_y, cut.img_y + cut.img_h).stop
                - slice(image_height, cut.img_y, cut.img_y + cut.img_h).start]

\* Person.get_cropped_image for a frame of a camera and a roi whose center is
\* in the image: the cut-out resized to output_size, which stands for the
\* frame it was cut from; cv2.resize raises when it is given an empty cut-out
get_cropped_image(image, roi, output_size) ==
    LET crop == cut_out(FrameWidth, FrameHeight, roi)
        padding == crop.left_padding + crop.right_padding + crop.top_padding
                   + crop.bottom_padding
    IN  IF (crop.img_w <= 0 \/ crop.img_h <= 0) /\ padding = 0 THEN Raises
        ELSE image

\* a roi that is the whole image, one with a width of 0 and one with a
\* width and a height of 0
WholeImage == Rect(Fraction(0, 1), Fraction(0, 1), Fraction(1, 1), Fraction(1, 1))

ZeroWidth == Rect(Fraction(1, 2), Fraction(1, 4), Fraction(0, 1), Fraction(1, 2))

ZeroSize == Rect(Fraction(1, 2), Fraction(1, 2), Fraction(0, 1), Fraction(0, 1))

\* the rois of the tracklets and the frames of the cameras
TrackletRois == {WholeImage, ZeroWidth, ZeroSize}

Images == 1 .. (MaxFrames + MaxCacheFrames)

\* settings.pose_crop_expansion
pose_crop_expansion == Fraction(0, 1)

\* the crop rect of a roi in a frame and the image cropped to it, for every
\* roi and frame there is
crops ==
    [roi \in TrackletRois, image \in Images |->
        LET rect == get_crop_rect(FrameWidth, FrameHeight, roi, pose_crop_expansion)
        IN  <<get_cropped_image(image, rect, pose_detector_frame_size), <<rect>> >>]

\* PoseImageProcessor.process_pose_image: the crop rect of the tracklet's roi
\* in the frame and the image cropped to it
process_pose_image(tracklet, cam_image) == crops[tracklet.roi, cam_image]

\* a Pose that is cropped from the stored frame whatever the tracklet's status
Pose_any_status(tracklet, frames) ==
    LET cam_image == _get_image(frames, tracklet.cam_id)
        crop == IF cam_image # NoImage
                THEN process_pose_image(tracklet, cam_image)
                ELSE <<NoImage, NoRect>>
    IN  [id |-> tracklet.id, cam_id |-> tracklet.cam_id,
         time_stamp |-> tracklet.time_stamp, tracklet |-> tracklet,
         crop_rect |-> crop[2], image |-> crop[1],
         is_final |-> is_removed(tracklet), pose |-> None]

\* the Pose that _process builds for a tracklet, given the frames stored then
Pose(tracklet, frames) ==
    LET cam_image == _get_image(frames, tracklet.cam_id)
        crop == IF cam_image # NoImage /\ is_active(tracklet)
                THEN process_pose_image(tracklet, cam_image)
                ELSE <<NoImage, NoRect>>
    IN  [id |-> tracklet.id, cam_id |-> tracklet.cam_id,
         time_stamp |-> tracklet.time_stamp, tracklet |-> tracklet,
         crop_rect |-> crop[2], image |-> crop[1],
         is_final |-> is_removed(tracklet), pose |-> None]

\* a pose_detectors.get that returns the detector of the next key
pose_detectors_next(detectors, id) ==
    IF id \in detectors THEN <<(id + 1) % max_players>> ELSE <<>>

\* self.pose_detectors.get(tracklet.id): <<the key of the detector found>>,
\* or <<>> for None
pose_detectors_get(detectors, id) == IF id \in detectors THEN <<id>> ELSE <<>>

\* a set_detection that leaves a pending detection in place
set_detection_keeps(mailbox, detection) ==
    IF mailbox = <<>> THEN <<detection>> ELSE mailbox

\* a set_detection that queues the detection behind the pending ones
set_detection_queues(mailbox, detection) == Append(mailbox, detection)

\* PoseDetection.set_detection: the mailbox after detection was stored in it
set_detection(mailbox, detection) == <<detection>>

\* a get_detection that leaves the detection in the mailbox
get_detection_keeps(mailbox) ==
    <<IF mailbox = <<>> THEN <<>> ELSE <<Head(mailbox)>>, mailbox>>

\* PoseDetection.get_detection: <<what is returned, the mailbox afterwards>>
get_detection(mailbox) ==
    <<IF mailbox = <<>> THEN <<>> ELSE <<Head(mailbox)>>, <<>> >>

\* set.add on the callback set
set_add(callbacks, callback) ==
    IF callbacks[callback] > 0 THEN callbacks ELSE [callbacks EXCEPT ![callback] = 1]

\* number of elements the callback set holds (len)
set_len(callbacks) ==
    LET RECURSIVE Sum(_)
        Sum(S) == IF S = {} THEN 0
                  ELSE LET c == CHOOSE x \in S : TRUE
                       IN  callbacks[c] + Sum(S \ {c})
    IN  Sum(CallbackIds)

\* the orders in which "for callback in self.pose_output_callbacks" may visit the set
set_iterations(callbacks) ==
    {order \in [1 .. set_len(callbacks) -> CallbackIds] :
        \A c \in CallbackIds :
            Cardinality({i \in DOMAIN order : order[i] = c}) = callbacks[c]}

\* the tracklet ids the PosePipeline keeps an entry for: __init__ creates no
\* registry field, and _process builds each Pose from its tracklet alone and
\* stores nothing under the id
PersonRegistry == {}

(***************************************************************************)
(* Initial state: a PosePipeline after __init__, no thread started.        *)
(***************************************************************************)
\* the pipeline settings.pose_active = active gives for the cameras cams, after
\* the calls of add_pose_callback that registered, and whose callers make the
\* calls of calls
Built(cams, active, registered, calls) ==
    /\ pose_active = active
    /\ tracklet_input_queue = <<>>
    /\ input_frames = [c \in cams |-> NoImage]
    /\ pose_detectors = IF active THEN DetectorIds ELSE {}
    /\ pose_output_callbacks = [c \in CallbackIds |-> IF c \in registered THEN 1 ELSE 0]
    /\ callback_lock = "free"
    /\ _detection = [k \in DetectorIds |-> <<>>]
    /\ _running = [k \in DetectorIds |-> FALSE]
    /\ _callbacks = [k \in DetectorIds |-> {}]
    /\ worker = [k \in DetectorIds |-> [pc |-> "new", job |-> <<>>]]
    /\ orch = [pc |-> "new", pose |-> <<>>, todo |-> <<>>]
    /\ angles = [pc |-> "new", queue |-> <<>>, pose |-> <<>>, todo |-> <<>>]
    /\ time_stamp = 0
    /\ frame_count = 0
    /\ add_calls = [c \in CallbackIds |-> IF c \in registered THEN 1 ELSE 0]
    /\ limits = calls
    /\ remove_calls = {}
    /\ slot_log = [k \in DetectorIds |-> <<>>]
    /\ inferred = {}
    /\ forwarded = [k \in DetectorIds |-> <<>>]
    /\ notified = <<>>
    /\ invoked = <<>>
    /\ processed = <<>>
    /\ _stop_event = FALSE
    /\ stop_call = "none"
    /\ set_calls = <<>>
    /\ onnx_session = NoSession
    /\ session_log = [loads |-> 0, runs |-> {}]

\* the pipeline of the launcher, with its cameras
Constructed(active, registered, calls) == Built(CamIds, active, registered, calls)

Init ==
    /\ \E active \in BOOLEAN :
          Constructed(active, {}, [events |-> MaxEvents, frames |-> MaxFrames,
                                   adds |-> MaxAdds])
    /\ crop_call = <<>>
    /\ angle_call = <<>>
    /\ sync_player = <<>>
    /\ player = <<>>
    /\ start_calls = <<>>

(***************************************************************************)
(* The public interface, called from other threads.                        *)
(***************************************************************************)
\* a thread that never counts as alive
is_alive_never(t) == FALSE

\* Thread.is_alive: the thread was started and its run has not ended
is_alive(t) == t.pc \notin {"new", "done", "dead"}

\* PosePipeline.start on a pipeline that was not started before
start ==
    /\ ~is_alive(orch)
    /\ orch.pc = "new"
    /\ start_calls' = Append(start_calls, "started")
    /\ angles' = [angles EXCEPT !.pc = "run"]
    /\ _callbacks' = [k \in DetectorIds |->
                        IF k \in pose_detectors THEN {"pose_input"} ELSE {}]
    /\ worker' = [k \in DetectorIds |->
                    IF k \in pose_detectors THEN [worker[k] EXCEPT !.pc = "start"]
                    ELSE worker[k]]
    /\ orch' = [orch EXCEPT !.pc = "run"]
    /\ UNCHANGED <<pose_active, limits, tracklet_input_queue, input_frames,
                   pose_detectors, pose_output_callbacks, callback_lock,
                   _detection, _running, time_stamp, frame_count, add_calls,
                   remove_calls, slot_log, inferred, forwarded, notified,
                   invoked, processed, _stop_event, stop_call, set_calls,
                   crop_call, onnx_session, session_log,
                   angle_call, sync_player, player>>

\* PosePipeline.start on a pipeline that was started before: it returns at
\* once while the PosePipeline thread is alive; after the thread has ended
\* the callbacks are added to the sets that hold them already and
\* joint_angles.start() raises RuntimeError, as a thread starts only once
start_again ==
    /\ orch.pc # "new"
    /\ Len(start_calls) < MaxStarts
    /\ start_calls' = Append(start_calls,
                             IF is_alive(orch) THEN "returned" ELSE "raised")
    /\ UNCHANGED <<pose_active, limits, tracklet_input_queue, input_frames,
                   pose_detectors, pose_output_callbacks, callback_lock,
                   _detection, _running, _callbacks, worker, orch, angles,
                   time_stamp, frame_count, add_calls, remove_calls, slot_log,
                   inferred, forwarded, notified, invoked, processed,
                   _stop_event, stop_call, set_calls, crop_call, onnx_session,
                   session_log, angle_call, sync_player, player>>

\* PosePipeline.add_tracklet with a tracklet of the given roi
add_tracklet_roi(id, cam_id, status, roi) ==
    /\ time_stamp < limits.events
    /\ time_stamp' = time_stamp + 1
    /\ tracklet_input_queue' =
          Append(tracklet_input_queue,
                 [id |-> id, cam_id |-> cam_id, status |-> status, roi |-> roi,
                  time_stamp |-> time_stamp + 1])
    /\ UNCHANGED <<pose_active, limits, input_frames, pose_detectors,
                   pose_output_callbacks, callback_lock, _detection, _running,
                   _callbacks, worker, orch, angles, frame_count, add_calls,
                   remove_calls, slot_log, inferred, forwarded, notified,
                   invoked, processed, _stop_event, stop_call, set_calls,
                   crop_call, onnx_session, session_log,
                   angle_call, sync_player, player, start_calls>>

\* PosePipeline.add_tracklet
add_tracklet(id, cam_id, status) == add_tracklet_roi(id, cam_id, status, WholeImage)

\* a set_image that stores the frame whatever its type
set_image_any_type(id, frame_type) ==
    /\ frame_count < limits.frames
    /\ frame_count' = frame_count + 1
    /\ set_calls' = Append(set_calls, [id |-> id, frame_type |-> frame_type,
                                       image |-> frame_count + 1])
    /\ input_frames' = [input_frames EXCEPT ![id] = frame_count + 1]
    /\ UNCHANGED <<pose_active, limits, tracklet_input_queue, pose_detectors,
                   pose_output_callbacks, callback_lock, _detection, _running,
                   _callbacks, worker, orch, angles, time_stamp, add_calls,
                   remove_calls, slot_log, inferred, forwarded, notified,
                   invoked, processed, _stop_event, stop_call, crop_call,
                   onnx_session, session_log,
                   angle_call, sync_player, player, start_calls>>

\* a set_image that keeps the frame a camera already has
set_image_keeps(id, frame_type) ==
    /\ frame_count < limits.frames
    /\ frame_count' = frame_count + 1
    /\ set_calls' = Append(set_calls, [id |-> id, frame_type |-> frame_type,
                                       image |-> frame_count + 1])
    /\ input_frames' = IF frame_type # "VIDEO" \/ input_frames[id] # NoImage
                       THEN input_frames
                       ELSE [input_frames EXCEPT ![id] = frame_count + 1]
    /\ UNCHANGED <<pose_active, limits, tracklet_input_queue, pose_detectors,
                   pose_output_callbacks, callback_lock, _detection, _running,
                   _callbacks, worker, orch, angles, time_stamp, add_calls,
                   remove_calls, slot_log, inferred, forwarded, notified,
                   invoked, processed, _stop_event, stop_call, crop_call,
                   onnx_session, session_log,
                   angle_call, sync_player, player, start_calls>>

\* PosePipeline.set_image; each call brings a new image
set_image(id, frame_type) ==
    /\ frame_count < limits.frames
    /\ frame_count' = frame_count + 1
    /\ set_calls' = Append(set_calls, [id |-> id, frame_type |-> frame_type,
                                       image |-> frame_count + 1])
    /\ input_frames' = IF frame_type # "VIDEO" THEN input_frames
                       ELSE [input_frames EXCEPT ![id] = frame_count + 1]
    /\ UNCHANGED <<pose_active, limits, tracklet_input_queue, pose_detectors,
                   pose_output_callbacks, callback_lock, _detection, _running,
                   _callbacks, worker, orch, angles, time_stamp, add_calls,
                   remove_calls, slot_log, inferred, forwarded, notified,
                   invoked, processed, _stop_event, stop_call, crop_call,
                   onnx_session, session_log,
                   angle_call, sync_player, player, start_calls>>

\* a with statement that is entered whoever holds the lock
lock_enter_unlocked(lock) == TRUE

\* "with lock:" is entered only when no thread holds the lock
lock_enter(lock) == lock = "free"

\* PosePipeline.add_pose_callback
add_pose_callback(callback) ==
    /\ set_len(add_calls) < limits.adds
    /\ lock_enter(callback_lock)
    /\ add_calls' = [add_calls EXCEPT ![callback] = @ + 1]
    /\ pose_output_callbacks' = set_add(pose_output_callbacks, callback)
    /\ UNCHANGED <<pose_active, limits, tracklet_input_queue, input_frames,
                   pose_detectors, callback_lock, _detection, _running,
                   _callbacks, worker, orch, angles, time_stamp, frame_count,
                   remove_calls, slot_log, inferred, forwarded, notified,
                   invoked, processed, _stop_event, stop_call, set_calls,
                   crop_call, onnx_session, session_log,
                   angle_call, sync_player, player, start_calls>>

\* a call of remove_pose_callback: PosePipeline defines no such method, the
\* call raises AttributeError in the caller and the callback set is as before
remove_pose_callback(callback) ==
    /\ remove_calls' = remove_calls \cup {callback}
    /\ UNCHANGED <<pose_active, limits, tracklet_input_queue, input_frames,
                   pose_detectors, pose_output_callbacks, callback_lock,
                   _detection, _running, _callbacks, worker, orch, angles,
                   time_stamp, frame_count, add_calls, slot_log, inferred,
                   forwarded, notified, invoked, processed, _stop_event,
                   stop_call, set_calls, crop_call, onnx_session, session_log,
                   angle_call, sync_player, player, start_calls>>

(***************************************************************************)
(* The PosePipeline thread.                                                *)
(***************************************************************************)
\* PosePipeline.run, one turn of the loop with a tracklet in the queue: the
\* thread found _stop_event unset at the loop test, or was already in
\* get(timeout) when it was set; _process builds the pose and hands it to the
\* detector of its id, or, with no such detector, goes on to
\* _notify_pose_callback
run_process ==
    /\ orch.pc \in (IF _stop_event THEN {"get"} ELSE {"run", "get"})
    /\ tracklet_input_queue # <<>>
    /\ Pose(Head(tracklet_input_queue), input_frames).image # Raises
    /\ LET tracklet == Head(tracklet_input_queue)
           pose == Pose(tracklet, input_frames)
           detector == pose_detectors_get(pose_detectors, tracklet.id)
       IN  /\ tracklet_input_queue' = Tail(tracklet_input_queue)
           /\ processed' = Append(processed, pose)
           /\ IF detector # <<>>
              THEN /\ _detection' = [_detection EXCEPT ![detector[1]] =
                                        set_detection(@, pose)]
                   /\ slot_log' = [slot_log EXCEPT ![detector[1]] =
                          Append(@, [op |-> "submit", time_stamp |-> pose.time_stamp,
                                     busy |-> worker[detector[1]].pc = "infer"])]
                   /\ orch' = [orch EXCEPT !.pc = "run"]
              ELSE /\ orch' = [orch EXCEPT !.pc = "notify_wait", !.pose = <<pose>>]
                   /\ UNCHANGED <<_detection, slot_log>>
    /\ UNCHANGED <<pose_active, limits, input_frames, pose_detectors,
                   pose_output_callbacks, callback_lock, _running, _callbacks,
                   worker, angles, time_stamp, frame_count, add_calls,
                   remove_calls, inferred, forwarded, notified, invoked,
                   _stop_event, stop_call, set_calls, crop_call, onnx_session,
                   session_log, angle_call, sync_player, player, start_calls>>

\* PosePipeline.run, one turn of the loop in which process_pose_image raises:
\* nothing in _process catches it, run catches Empty only, the thread ends
run_process_raises ==
    /\ orch.pc \in (IF _stop_event THEN {"get"} ELSE {"run", "get"})
    /\ tracklet_input_queue # <<>>
    /\ Pose(Head(tracklet_input_queue), input_frames).image = Raises
    /\ tracklet_input_queue' = Tail(tracklet_input_queue)
    /\ orch' = [pc |-> "dead", pose |-> <<>>, todo |-> <<>>]
    /\ UNCHANGED <<pose_active, limits, input_frames, pose_detectors,
                   pose_output_callbacks, callback_lock, _detection, _running,
                   _callbacks, worker, angles, time_stamp, frame_count,
                   add_calls, remove_calls, slot_log, inferred, forwarded,
                   notified, invoked, processed, _stop_event, stop_call,
                   set_calls, crop_call, onnx_session, session_log,
                   angle_call, sync_player, player, start_calls>>

(***************************************************************************)
(* The PoseDetection threads, one per detector.                            *)
(***************************************************************************)
\* a loop test that does not read _running
loop_test_always(k) == TRUE

\* PoseDetection.run: the loop test, "while self._running"
loop_test(k) == _running[k]

\* PoseDetection.run up to the loop, with no step of another detector thread
\* in between: a thread that finds onnx_session None assigns the session
\* LoadSession returns to it; the thread sets _running
detector_run(k) ==
    /\ worker[k].pc = "start"
    /\ IF onnx_session = NoSession
       THEN /\ onnx_session' = session_log.loads + 1
            /\ session_log' = [session_log EXCEPT !.loads = @ + 1]
       ELSE UNCHANGED <<onnx_session, session_log>>
    /\ _running' = [_running EXCEPT ![k] = TRUE]
    /\ worker' = [worker EXCEPT ![k].pc = "loop"]
    /\ UNCHANGED <<pose_active, limits, tracklet_input_queue, input_frames,
                   pose_detectors, pose_output_callbacks, callback_lock,
                   _detection, _callbacks, orch, angles, time_stamp, frame_count,
                   add_calls, remove_calls, slot_log, inferred, forwarded,
                   notified, invoked, processed, _stop_event, stop_call,
                   set_calls, crop_call, angle_call, sync_player, player, start_calls>>

\* PoseDetection.run, "if PoseDetection.onnx_session is None": the thread
\* finds it None and calls LoadSession, which takes its time
detector_session_check(k) ==
    /\ worker[k].pc = "start"
    /\ onnx_session = NoSession
    /\ worker' = [worker EXCEPT ![k].pc = "load"]
    /\ UNCHANGED <<pose_active, limits, tracklet_input_queue, input_frames,
                   pose_detectors, pose_output_callbacks, callback_lock,
                   _detection, _running, _callbacks, orch, angles, time_stamp,
                   frame_count, add_calls, remove_calls, slot_log, inferred,
                   forwarded, notified, invoked, processed, _stop_event,
                   stop_call, set_calls, crop_call, onnx_session, session_log,
                   angle_call, sync_player, player, start_calls>>

\* PoseDetection.run: LoadSession returns a new session, which the thread
\* assigns to onnx_session (with onnx_size and model_multi) whatever is there
\* by now; the thread sets _running
detector_session_load(k) ==
    /\ worker[k].pc = "load"
    /\ onnx_session' = session_log.loads + 1
    /\ session_log' = [session_log EXCEPT !.loads = @ + 1]
    /\ _running' = [_running EXCEPT ![k] = TRUE]
    /\ worker' = [worker EXCEPT ![k].pc = "loop"]
    /\ UNCHANGED <<pose_active, limits, tracklet_input_queue, input_frames,
                   pose_detectors, pose_output_callbacks, callback_lock,
                   _detection, _callbacks, orch, angles, time_stamp, frame_count,
                   add_calls, remove_calls, slot_log, inferred, forwarded,
                   notified, invoked, processed, _stop_event, stop_call,
                   set_calls, crop_call, angle_call, sync_player, player, start_calls>>

\* PoseDetection.run, one turn of the loop up to RunSession: get_detection,
\* and with a detection that has an image RunSession is entered with the
\* onnx_session of that moment; any other detection is dropped and the thread
\* sleeps
detector_get(k) ==
    /\ worker[k].pc = "loop"
    /\ loop_test(k)
    /\ LET got == get_detection(_detection[k])
       IN  /\ _detection' = [_detection EXCEPT ![k] = got[2]]
           /\ IF got[1] = <<>>
              THEN UNCHANGED <<worker, slot_log, inferred, session_log>>
              ELSE LET detection == got[1][1]
                   IN  /\ slot_log' = [slot_log EXCEPT ![k] =
                              Append(@, [op |-> "take",
                                         time_stamp |-> detection.time_stamp,
                                         busy |-> FALSE])]
                       /\ IF detection.image # NoImage
                          THEN /\ worker' = [worker EXCEPT ![k] =
                                     [pc |-> "infer", job |-> <<detection>>]]
                               /\ inferred' = inferred \cup {detection.time_stamp}
                               /\ session_log' =
                                     [session_log EXCEPT !.runs = @ \cup {onnx_session}]
                          ELSE UNCHANGED <<worker, inferred, session_log>>
    /\ UNCHANGED <<pose_active, limits, tracklet_input_queue, input_frames,
                   pose_detectors, pose_output_callbacks, callback_lock,
                   _running, _callbacks, orch, angles, time_stamp, frame_count,
                   add_calls, remove_calls, forwarded, notified, invoked,
                   processed, _stop_event, stop_call, set_calls, crop_call,
                   onnx_session, angle_call, sync_player, player, start_calls>>

\* PoseDetection.run, RunSession returns: the poses are stored on the detection
\* and callback() hands it to every message callback (PoseAngleCalculator.pose_input)
detector_infer(k) ==
    /\ worker[k].pc = "infer"
    /\ LET detection == [worker[k].job[1] EXCEPT !.pose = "Poses"]
       IN  /\ angles' = IF "pose_input" \in _callbacks[k]
                        THEN [angles EXCEPT !.queue = Append(@, detection)]
                        ELSE angles
           /\ forwarded' = [forwarded EXCEPT ![k] = Append(@, detection.time_stamp)]
    /\ worker' = [worker EXCEPT ![k] = [pc |-> "loop", job |-> <<>>]]
    /\ UNCHANGED <<pose_active, limits, tracklet_input_queue, input_frames,
                   pose_detectors, pose_output_callbacks, callback_lock,
                   _detection, _running, _callbacks, orch, time_stamp,
                   frame_count, add_calls, remove_calls, slot_log, inferred,
                   notified, invoked, processed, _stop_event, stop_call,
                   set_calls, crop_call, onnx_session, session_log,
                   angle_call, sync_player, player, start_calls>>

\* PoseDetection.run, RunSession raises: nothing in run catches it, the thread ends
detector_infer_raises(k) ==
    /\ worker[k].pc = "infer"
    /\ worker' = [worker EXCEPT ![k] = [pc |-> "dead", job |-> <<>>]]
    /\ UNCHANGED <<pose_active, limits, tracklet_input_queue, input_frames,
                   pose_detectors, pose_output_callbacks, callback_lock,
                   _detection, _running, _callbacks, orch, angles, time_stamp,
                   frame_count, add_calls, remove_calls, slot_log, inferred,
                   forwarded, notified, invoked, processed, _stop_event,
                   stop_call, set_calls, crop_call, onnx_session, session_log,
                   angle_call, sync_player, player, start_calls>>

(***************************************************************************)
(* The PoseAngleCalculator thread.                                         *)
(***************************************************************************)
\* the thread takes the next pose of its input, computes the angles and goes
\* on to its pose callback, PosePipeline._notify_pose_callback
angles_run ==
    /\ angles.pc = "run"
    /\ angles.queue # <<>>
    /\ angles' = [angles EXCEPT !.pc = "notify_wait", !.queue = Tail(@),
                                !.pose = <<Head(angles.queue)>>]
    /\ UNCHANGED <<pose_active, limits, tracklet_input_queue, input_frames,
                   pose_detectors, pose_output_callbacks, callback_lock,
                   _detection, _running, _callbacks, worker, orch, time_stamp,
                   frame_count, add_calls, remove_calls, slot_log, inferred,
                   forwarded, notified, invoked, processed, _stop_event,
                   stop_call, set_calls, crop_call, onnx_session, session_log,
                   angle_call, sync_player, player, start_calls>>

(***************************************************************************)
(* PosePipeline._notify_pose_callback, run by the thread that calls it:    *)
(* "orch" (from _process) or "angles" (as the pose callback of the angle   *)
(* calculator).                                                            *)
(***************************************************************************)
Threads == {"orch", "angles"}
thread(t) == IF t = "orch" THEN orch ELSE angles

\* "with self.callback_lock:" is entered and the iteration over the set begins
notify_enter(t) ==
    /\ thread(t).pc = "notify_wait"
    /\ lock_enter(callback_lock)
    /\ callback_lock' = t
    /\ \E order \in set_iterations(pose_output_callbacks) :
          IF t = "orch"
          THEN orch' = [orch EXCEPT !.pc = "notify", !.todo = order] /\ UNCHANGED angles
          ELSE angles' = [angles EXCEPT !.pc = "notify", !.todo = order] /\ UNCHANGED orch
    /\ notified' = Append(notified,
                          [time_stamp |-> thread(t).pose[1].time_stamp,
                           thread |-> t, pose |-> thread(t).pose[1].pose,
                           callbacks |-> pose_output_callbacks,
                           add_calls |-> add_calls, remove_calls |-> remove_calls])
    /\ UNCHANGED <<pose_active, limits, tracklet_input_queue, input_frames,
                   pose_detectors, pose_output_callbacks, _detection, _running,
                   _callbacks, worker, time_stamp, frame_count, add_calls,
                   remove_calls, slot_log, inferred, forwarded, invoked,
                   processed, _stop_event, stop_call, set_calls, crop_call,
                   onnx_session, session_log,
                   angle_call, sync_player, player, start_calls>>

\* the entry of invoked for the call of the next callback of the iteration
invocation(t) ==
    [callback |-> Head(thread(t).todo), time_stamp |-> thread(t).pose[1].time_stamp,
     thread |-> t, call |-> Len(notified)]

\* callback(pose) is called and returns
notify_call(t) ==
    /\ thread(t).pc = "notify"
    /\ thread(t).todo # <<>>
    /\ invoked' = Append(invoked, invocation(t))
    /\ IF t = "orch"
       THEN orch' = [orch EXCEPT !.todo = Tail(@)] /\ UNCHANGED angles
       ELSE angles' = [angles EXCEPT !.todo = Tail(@)] /\ UNCHANGED orch
    /\ UNCHANGED <<pose_active, limits, tracklet_input_queue, input_frames,
                   pose_detectors, pose_output_callbacks, callback_lock,
                   _detection, _running, _callbacks, worker, time_stamp,
                   frame_count, add_calls, remove_calls, slot_log, inferred,
                   forwarded, notified, processed, _stop_event, stop_call,
                   set_calls, crop_call, onnx_session, session_log,
                   angle_call, sync_player, player, start_calls>>

\* callback(pose) is called and raises: the with statement releases the lock
\* and the exception leaves _notify_pose_callback. In the PosePipeline thread
\* it leaves _process and run (which catches Empty only) and the thread ends;
\* the angle calculator contains it and goes on with its loop
notify_call_raises(t) ==
    /\ thread(t).pc = "notify"
    /\ thread(t).todo # <<>>
    /\ invoked' = Append(invoked, invocation(t))
    /\ callback_lock' = "free"
    /\ IF t = "orch"
       THEN /\ orch' = [pc |-> "dead", pose |-> <<>>, todo |-> <<>>]
            /\ UNCHANGED angles
       ELSE /\ angles' = [angles EXCEPT !.pc = "run", !.pose = <<>>, !.todo = <<>>]
            /\ UNCHANGED orch
    /\ UNCHANGED <<pose_active, limits, tracklet_input_queue, input_frames,
                   pose_detectors, pose_output_callbacks, _detection, _running,
                   _callbacks, worker, time_stamp, frame_count, add_calls,
                   remove_calls, slot_log, inferred, forwarded, notified,
                   processed, _stop_event, stop_call, set_calls, crop_call,
                   onnx_session, session_log,
                   angle_call, sync_player, player, start_calls>>

\* the iteration is over: the lock is released and the thread is back in its loop
notify_exit(t) ==
    /\ thread(t).pc = "notify"
    /\ thread(t).todo = <<>>
    /\ callback_lock' = "free"
    /\ IF t = "orch"
       THEN orch' = [orch EXCEPT !.pc = "run", !.pose = <<>>] /\ UNCHANGED angles
       ELSE angles' = [angles EXCEPT !.pc = "run", !.pose = <<>>] /\ UNCHANGED orch
    /\ UNCHANGED <<pose_active, limits, tracklet_input_queue, input_frames,
                   pose_detectors, pose_output_callbacks, _detection, _running,
                   _callbacks, worker, time_stamp, frame_count, add_calls,
                   remove_calls, slot_log, inferred, forwarded, notified,
                   invoked, processed, _stop_event, stop_call, set_calls,
                   crop_call, onnx_session, session_log,
                   angle_call, sync_player, player, start_calls>>

(***************************************************************************)
(* PosePipeline.stop, run by the thread that calls it, and the ends of the *)
(* loops of the threads.                                                   *)
(***************************************************************************)
\* stop on a started pipeline sets _stop_event and goes on to join(); the
\* event finds the PosePipeline thread at its loop test or in get(timeout)
stop_set ==
    /\ stop_call = "none"
    /\ orch.pc # "new"
    /\ _stop_event' = TRUE
    /\ stop_call' = "join"
    /\ \E in_get \in BOOLEAN :
          orch' = IF in_get /\ orch.pc = "run" THEN [orch EXCEPT !.pc = "get"]
                  ELSE orch
    /\ UNCHANGED <<pose_active, limits, tracklet_input_queue, input_frames,
                   pose_detectors, pose_output_callbacks, callback_lock,
                   _detection, _running, _callbacks, worker, angles, time_stamp,
                   frame_count, add_calls, remove_calls, slot_log, inferred,
                   forwarded, notified, invoked, processed, set_calls, crop_call,
                   onnx_session, session_log,
                   angle_call, sync_player, player, start_calls>>

\* PosePipeline.run: get(timeout) raises Empty, back to the loop test
run_empty ==
    /\ orch.pc = "get"
    /\ tracklet_input_queue = <<>>
    /\ orch' = [orch EXCEPT !.pc = "run"]
    /\ UNCHANGED <<pose_active, limits, tracklet_input_queue, input_frames,
                   pose_detectors, pose_output_callbacks, callback_lock,
                   _detection, _running, _callbacks, worker, angles, time_stamp,
                   frame_count, add_calls, remove_calls, slot_log, inferred,
                   forwarded, notified, invoked, processed, _stop_event,
                   stop_call, set_calls, crop_call, onnx_session, session_log,
                   angle_call, sync_player, player, start_calls>>

\* PosePipeline.run: the loop test finds _stop_event set, run returns
run_exit ==
    /\ orch.pc = "run"
    /\ _stop_event
    /\ orch' = [orch EXCEPT !.pc = "done"]
    /\ UNCHANGED <<pose_active, limits, tracklet_input_queue, input_frames,
                   pose_detectors, pose_output_callbacks, callback_lock,
                   _detection, _running, _callbacks, worker, angles, time_stamp,
                   frame_count, add_calls, remove_calls, slot_log, inferred,
                   forwarded, notified, invoked, processed, _stop_event,
                   stop_call, set_calls, crop_call, onnx_session, session_log,
                   angle_call, sync_player, player, start_calls>>

\* a clear() that leaves the set as it is
clear_keeps(callbacks) == callbacks

\* set.clear(): no callback is in the set
clear(callbacks) == [c \in CallbackIds |-> 0]

\* stop: join() returns as the PosePipeline thread has ended, and the
\* callback set is cleared under the lock
stop_clear ==
    /\ stop_call = "join"
    /\ orch.pc \in {"done", "dead"}
    /\ lock_enter(callback_lock)
    /\ pose_output_callbacks' = clear(pose_output_callbacks)
    /\ stop_call' = "detectors"
    /\ UNCHANGED <<pose_active, limits, tracklet_input_queue, input_frames,
                   pose_detectors, callback_lock, _detection, _running,
                   _callbacks, worker, orch, angles, time_stamp, frame_count,
                   add_calls, remove_calls, slot_log, inferred, forwarded,
                   notified, invoked, processed, _stop_event, set_calls,
                   crop_call, onnx_session, session_log,
                   angle_call, sync_player, player, start_calls>>

\* stop: detector.stop() for every detector, which sets _running False and
\* returns, and joint_angles.stop() is called; the log of each detector notes
\* the stop and whether it found the thread in RunSession
stop_detectors ==
    /\ stop_call = "detectors"
    /\ _running' = [k \in DetectorIds |->
                      IF k \in pose_detectors THEN FALSE ELSE _running[k]]
    /\ slot_log' = [k \in DetectorIds |->
                      IF k \in pose_detectors
                      THEN Append(slot_log[k],
                                  [op |-> "stop", time_stamp |-> 0,
                                   busy |-> worker[k].pc = "infer"])
                      ELSE slot_log[k]]
    /\ stop_call' = "angles"
    /\ UNCHANGED <<pose_active, limits, tracklet_input_queue, input_frames,
                   pose_detectors, pose_output_callbacks, callback_lock,
                   _detection, _callbacks, worker, orch, angles, time_stamp,
                   frame_count, add_calls, remove_calls, inferred, forwarded,
                   notified, invoked, processed, _stop_event, set_calls,
                   crop_call, onnx_session, session_log,
                   angle_call, sync_player, player, start_calls>>

\* PoseAngleCalculator.run: its loop ends once stop() was called on it
angles_exit ==
    /\ stop_call = "angles"
    /\ angles.pc = "run"
    /\ angles' = [angles EXCEPT !.pc = "done"]
    /\ UNCHANGED <<pose_active, limits, tracklet_input_queue, input_frames,
                   pose_detectors, pose_output_callbacks, callback_lock,
                   _detection, _running, _callbacks, worker, orch, time_stamp,
                   frame_count, add_calls, remove_calls, slot_log, inferred,
                   forwarded, notified, invoked, processed, _stop_event,
                   stop_call, set_calls, crop_call, onnx_session, session_log,
                   angle_call, sync_player, player, start_calls>>

\* stop: joint_angles.stop() has joined the angle calculator, stop returns
stop_return ==
    /\ stop_call = "angles"
    /\ angles.pc = "done"
    /\ stop_call' = "returned"
    /\ UNCHANGED <<pose_active, limits, tracklet_input_queue, input_frames,
                   pose_detectors, pose_output_callbacks, callback_lock,
                   _detection, _running, _callbacks, worker, orch, angles,
                   time_stamp, frame_count, add_calls, remove_calls, slot_log,
                   inferred, forwarded, notified, invoked, processed,
                   _stop_event, set_calls, crop_call, onnx_session, session_log,
                   angle_call, sync_player, player, start_calls>>

\* PoseDetection.run: the loop test finds _running False, run returns
detector_exit(k) ==
    /\ worker[k].pc = "loop"
    /\ ~loop_test(k)
    /\ worker' = [worker EXCEPT ![k].pc = "done"]
    /\ UNCHANGED <<pose_active, limits, tracklet_input_queue, input_frames,
                   pose_detectors, pose_output_callbacks, callback_lock,
                   _detection, _running, _callbacks, orch, angles, time_stamp,
                   frame_count, add_calls, remove_calls, slot_log, inferred,
                   forwarded, notified, invoked, processed, _stop_event,
                   stop_call, set_calls, crop_call, onnx_session, session_log,
                   angle_call, sync_player, player, start_calls>>

(***************************************************************************)
(* The specification.                                                      *)
(***************************************************************************)
\* the steps of the threads of the pipeline
Steps ==
    \/ run_process
    \/ \E k \in DetectorIds : detector_run(k)
    \/ \E k \in DetectorIds : detector_get(k)
    \/ \E k \in DetectorIds : detector_infer(k)
    \/ \E k \in DetectorIds : detector_infer_raises(k)
    \/ angles_run
    \/ \E t \in Threads : notify_enter(t)
    \/ \E t \in Threads : notify_call(t)
    \/ \E t \in Threads : notify_call_raises(t)
    \/ \E t \in Threads : notify_exit(t)

\* the pipeline from its construction on, with every call its callers make
\* and one output callback
Next ==
    \/ start
    \/ \E id \in TrackletIds, cam_id \in CamIds, status \in TrackingStatus :
          add_tracklet(id, cam_id, status)
    \/ \E id \in CamIds, frame_type \in FrameTypes : set_image(id, frame_type)
    \/ add_pose_callback("c1")
    \/ Steps

Spec == Init /\ [][Next]_vars

\* a pipeline with pose detection on, after add_pose_callback("c1")
InitSlot ==
    /\ Constructed(TRUE, {"c1"}, [events |-> MaxSlotEvents, frames |-> MaxFrames,
                                  adds |-> 1])
    /\ crop_call = <<>>
    /\ angle_call = <<>>
    /\ sync_player = <<>>
    /\ player = <<>>
    /\ start_calls = <<>>

\* the tracklets all have a detector
NextSlot ==
    \/ start
    \/ \E id \in DetectorIds, cam_id \in CamIds, status \in TrackingStatus :
          add_tracklet(id, cam_id, status)
    \/ \E id \in CamIds : set_image(id, "VIDEO")
    \/ Steps

SpecSlot == InitSlot /\ [][NextSlot]_vars

\* the output callbacks: tracklets of one detector and of no detector, several
\* callbacks, and callers that try to remove a callback
NextCallbacks ==
    \/ start
    \/ \E id \in {0, max_players} : add_tracklet(id, 0, "NEW")
    \/ set_image(0, "VIDEO")
    \/ \E callback \in CallbackIds : add_pose_callback(callback)
    \/ \E callback \in CallbackIds : remove_pose_callback(callback)
    \/ Steps

InitCallbacks ==
    /\ \E active \in BOOLEAN :
          Constructed(active, {}, [events |-> MaxEvents, frames |-> MaxFrames,
                                   adds |-> MaxCallbackAdds])
    /\ crop_call = <<>>
    /\ angle_call = <<>>
    /\ sync_player = <<>>
    /\ player = <<>>
    /\ start_calls = <<>>

SpecCallbacks == InitCallbacks /\ [][NextCallbacks]_vars

\* a pipeline with pose detection on and one output callback that is started
\* and stopped; RunSession and the callback return
InitStop ==
    /\ Constructed(TRUE, {"c1"}, [events |-> MaxStopEvents, frames |-> MaxFrames,
                                  adds |-> 1])
    /\ crop_call = <<>>
    /\ angle_call = <<>>
    /\ sync_player = <<>>
    /\ player = <<>>
    /\ start_calls = <<>>

NextStop ==
    \/ start
    \/ \E id \in TrackletIds, status \in {"NEW", "REMOVED"} :
          add_tracklet(id, 0, status)
    \/ set_image(0, "VIDEO")
    \/ run_process
    \/ run_empty
    \/ run_exit
    \/ \E k \in DetectorIds : detector_run(k)
    \/ \E k \in DetectorIds : detector_get(k)
    \/ \E k \in DetectorIds : detector_infer(k)
    \/ \E k \in DetectorIds : detector_exit(k)
    \/ angles_run
    \/ angles_exit
    \/ \E t \in Threads : notify_enter(t)
    \/ \E t \in Threads : notify_call(t)
    \/ \E t \in Threads : notify_exit(t)
    \/ stop_set
    \/ stop_clear
    \/ stop_detectors
    \/ stop_return

SpecStop == InitStop /\ [][NextStop]_vars

\* the same pipeline with a caller that registers a second output callback
\* at any time
InitNotify ==
    /\ Constructed(TRUE, {"c1"}, [events |-> MaxNotifyEvents, frames |-> MaxFrames,
                                  adds |-> 2])
    /\ crop_call = <<>>
    /\ angle_call = <<>>
    /\ sync_player = <<>>
    /\ player = <<>>
    /\ start_calls = <<>>

NextNotify ==
    \/ NextStop
    \/ add_pose_callback("c2")

SpecNotify == InitNotify /\ [][NextNotify]_vars

\* the pipeline with a caller that calls start again at any time
InitStart ==
    /\ Constructed(TRUE, {"c1"}, [events |-> MaxStartEvents, frames |-> MaxFrames,
                                  adds |-> 1])
    /\ crop_call = <<>>
    /\ angle_call = <<>>
    /\ sync_player = <<>>
    /\ player = <<>>
    /\ start_calls = <<>>

NextStart ==
    \/ NextStop
    \/ start_again

SpecStart == InitStart /\ [][NextStart]_vars

\* the frames: cameras that store frames of every type while the tracklets
\* of detector 0 are processed
InitFrames ==
    /\ Constructed(TRUE, {"c1"}, [events |-> MaxCacheEvents,
                                  frames |-> MaxCacheFrames, adds |-> 1])
    /\ crop_call = <<>>
    /\ angle_call = <<>>
    /\ sync_player = <<>>
    /\ player = <<>>
    /\ start_calls = <<>>

NextFrames ==
    \/ start
    \/ \E cam_id \in CamIds : add_tracklet(0, cam_id, "NEW")
    \/ \E id \in CamIds, frame_type \in FrameTypes : set_image(id, frame_type)
    \/ Steps

SpecFrames == InitFrames /\ [][NextFrames]_vars

\* the frames of several cameras: set_image is called with the ids of
\* MaxCacheCams cameras, and the tracklets of detector 0 come from any of them
CacheCamIds == 0 .. (MaxCacheCams - 1)

InitCache ==
    /\ Built(CacheCamIds, TRUE, {"c1"}, [events |-> MaxCacheEvents,
                                         frames |-> MaxCacheFrames, adds |-> 1])
    /\ crop_call = <<>>
    /\ angle_call = <<>>
    /\ sync_player = <<>>
    /\ player = <<>>
    /\ start_calls = <<>>

NextCache ==
    \/ start
    \/ \E cam_id \in CacheCamIds : add_tracklet(0, cam_id, "NEW")
    \/ \E id \in CacheCamIds, frame_type \in FrameTypes : set_image(id, frame_type)
    \/ Steps

SpecCache == InitCache /\ [][NextCache]_vars

\* tracklets with every kind of roi
InitRoi ==
    /\ Constructed(TRUE, {"c1"}, [events |-> MaxRoiEvents, frames |-> MaxFrames,
                                  adds |-> 1])
    /\ crop_call = <<>>
    /\ angle_call = <<>>
    /\ sync_player = <<>>
    /\ player = <<>>
    /\ start_calls = <<>>

NextRoi ==
    \/ start
    \/ \E roi \in TrackletRois : add_tracklet_roi(0, 0, "NEW", roi)
    \/ set_image(0, "VIDEO")
    \/ run_process_raises
    \/ Steps

SpecRoi == InitRoi /\ [][NextRoi]_vars

\* the detector threads start together: each reads onnx_session and calls
\* LoadSession in its own time
InitSession ==
    /\ Constructed(TRUE, {"c1"}, [events |-> MaxSessionEvents, frames |-> MaxFrames,
                                  adds |-> 1])
    /\ crop_call = <<>>
    /\ angle_call = <<>>
    /\ sync_player = <<>>
    /\ player = <<>>
    /\ start_calls = <<>>

NextSession ==
    \/ start
    \/ \E id \in DetectorIds : add_tracklet(id, 0, "NEW")
    \/ set_image(0, "VIDEO")
    \/ \E k \in DetectorIds : detector_session_check(k)
    \/ \E k \in DetectorIds : detector_session_load(k)
    \/ Steps

SpecSession == InitSession /\ [][NextSession]_vars

\* a pipeline with pose detection on and one output callback that is never
\* stopped: tracklets of every status, all with a detector; RunSession and
\* the callback return
InitLive ==
    /\ Constructed(TRUE, {"c1"}, [events |-> MaxLiveEvents, frames |-> MaxFrames,
                                  adds |-> 1])
    /\ crop_call = <<>>
    /\ angle_call = <<>>
    /\ sync_player = <<>>
    /\ player = <<>>
    /\ start_calls = <<>>

NextLive ==
    \/ start
    \/ \E id \in DetectorIds, status \in TrackingStatus : add_tracklet(id, 0, status)
    \/ set_image(0, "VIDEO")
    \/ run_process
    \/ \E k \in DetectorIds : detector_run(k)
    \/ \E k \in DetectorIds : detector_get(k)
    \/ \E k \in DetectorIds : detector_infer(k)
    \/ angles_run
    \/ \E t \in Threads : notify_enter(t)
    \/ \E t \in Threads : notify_call(t)
    \/ \E t \in Threads : notify_exit(t)

\* every started thread keeps running: a thread that can take its next step
\* takes it (the callers of the pipeline are under no such obligation)
Fairness ==
    /\ WF_vars(run_process)
    /\ \A k \in DetectorIds :
          /\ WF_vars(detector_run(k))
          /\ WF_vars(detector_get(k))
          /\ WF_vars(detector_infer(k))
    /\ WF_vars(angles_run)
    /\ \A t \in Threads :
          /\ WF_vars(notify_enter(t))
          /\ WF_vars(notify_call(t))
          /\ WF_vars(notify_exit(t))

SpecLive == InitLive /\ [][NextLive]_vars /\ Fairness

\* the rois, expansions and calls of get_crop_rect that are tried
Rois ==
    {Rect(Fraction(x, RoiSteps), Fraction(y, RoiSteps),
          Fraction(width, RoiSteps), Fraction(height, RoiSteps)) :
        x \in 0 .. (RoiSteps - 1), y \in 0 .. (RoiSteps - 1),
        width \in 1 .. RoiSteps, height \in 1 .. RoiSteps}

Expansions == {Fraction(n, 2) : n \in 0 .. MaxExpansion}

\* a call of get_crop_rect with these arguments that has not returned
Call(image_width, image_height, roi, expansion) ==
    [image_width |-> image_width, image_height |-> image_height, roi |-> roi,
     expansion |-> expansion, square |-> <<>>, rect |-> <<>>, cut |-> <<>>,
     crop |-> <<>>]

\* roi {x: 0.4, y: 0.4, width: 0.2, height: 0.1} on a 1000 x 1000 image,
\* expansion 0.0
ScenarioCall ==
    Call(1000, 1000, Rect(Fraction(4, 10), Fraction(4, 10), Fraction(2, 10),
                          Fraction(1, 10)), Fraction(0, 1))

CropCalls ==
    {Call(image_width, image_height, roi, expansion) :
        image_width \in 1 .. MaxImageWidth, image_height \in 1 .. MaxImageHeight,
        roi \in Rois, expansion \in Expansions} \cup {ScenarioCall}

\* get_crop_rect returns
get_crop_rect_call ==
    /\ crop_call # <<>>
    /\ crop_call.rect = <<>>
    /\ crop_call' =
          [crop_call EXCEPT
             !.square = <<crop_square(crop_call.image_width, crop_call.image_height,
                                      crop_call.roi, crop_call.expansion)>>,
             !.rect = <<get_crop_rect(crop_call.image_width, crop_call.image_height,
                                      crop_call.roi, crop_call.expansion)>>]
    /\ UNCHANGED <<pose_active, limits, tracklet_input_queue, input_frames,
                   pose_detectors, pose_output_callbacks, callback_lock,
                   _detection, _running, _callbacks, worker, orch, angles,
                   time_stamp, frame_count, add_calls, remove_calls, slot_log,
                   inferred, forwarded, notified, invoked, processed,
                   _stop_event, stop_call, set_calls, onnx_session, session_log,
                   angle_call, sync_player, player, start_calls>>

\* the calls of Person.get_crop_rect, a static method, on a pipeline at rest
InitCrop ==
    /\ Constructed(FALSE, {}, [events |-> 0, frames |-> 0, adds |-> 0])
    /\ crop_call \in CropCalls
    /\ angle_call = <<>>
    /\ sync_player = <<>>
    /\ player = <<>>
    /\ start_calls = <<>>

NextCrop == get_crop_rect_call

SpecCrop == InitCrop /\ [][NextCrop]_vars

\* get_cropped_image is called with the rect that get_crop_rect returned, on
\* an image of the same size, and computes its cut-out
get_cropped_image_call ==
    /\ crop_call # <<>>
    /\ crop_call.rect # <<>>
    /\ crop_call.cut = <<>>
    /\ crop_call' =
          [crop_call EXCEPT
             !.cut = <<cut_out(crop_call.image_width, crop_call.image_height,
                               crop_call.rect[1])>>,
             !.crop = <<bordered(crop_call.image_width, crop_call.image_height,
                                 cut_out(crop_call.image_width,
                                         crop_call.image_height,
                                         crop_call.rect[1]))>>]
    /\ UNCHANGED <<pose_active, limits, tracklet_input_queue, input_frames,
                   pose_detectors, pose_output_callbacks, callback_lock,
                   _detection, _running, _callbacks, worker, orch, angles,
                   time_stamp, frame_count, add_calls, remove_calls, slot_log,
                   inferred, forwarded, notified, invoked, processed,
                   _stop_event, stop_call, set_calls, onnx_session, session_log,
                   angle_call, sync_player, player, start_calls>>

\* the calls of get_crop_rect and get_cropped_image on images of the sizes on
\* which the conversion to normalized coordinates and back is tried
ExtractCalls ==
    {Call(image_width, image_height, roi, expansion) :
        image_width \in 1 .. MaxExtractWidth, image_height \in 1 .. MaxExtractHeight,
        roi \in Rois, expansion \in Expansions}

InitExtract ==
    /\ Constructed(FALSE, {}, [events |-> 0, frames |-> 0, adds |-> 0])
    /\ crop_call \in ExtractCalls
    /\ angle_call = <<>>
    /\ sync_player = <<>>
    /\ player = <<>>
    /\ start_calls = <<>>

NextExtract ==
    \/ get_crop_rect_call
    \/ get_cropped_image_call

SpecExtract == InitExtract /\ [][NextExtract]_vars

(***************************************************************************)
(* The PoseAngleCalculator, per pose: the angles it computes.              *)
(***************************************************************************)
\* the keypoints that angles are computed from, and the joints with the
\* three keypoints each one's angle is computed from
Keypoints == {"left_hip", "left_shoulder", "left_elbow", "left_wrist"}

AngleJoints ==
    [left_shoulder |-> <<"left_hip", "left_shoulder", "left_elbow">>,
     left_elbow |-> <<"left_shoulder", "left_elbow", "left_wrist">>]

\* a score that must be above the threshold to count
sufficient_exceeds(score, confidence_threshold) == score > confidence_threshold

\* the score of a keypoint is enough for an angle
sufficient(score, confidence_threshold) == score >= confidence_threshold

\* the joints the result mapping has an angle for
joint_angles(keypoints, confidence_threshold) ==
    {joint \in DOMAIN AngleJoints :
        \A i \in 1 .. 3 :
            sufficient(keypoints[AngleJoints[joint][i]], confidence_threshold)}

\* a pose that came in with these keypoints (<<>>: absent), before its
\* angles are computed
AngleCall(keypoints, confidence_threshold) ==
    [keypoints |-> keypoints, confidence_threshold |-> confidence_threshold,
     angles |-> <<>>, forwarded |-> FALSE]

AngleCalls ==
    {AngleCall(keypoints, confidence_threshold) :
        keypoints \in {<<>>} \cup {<<scores>> : scores \in [Keypoints -> 0 .. MaxScore]},
        confidence_threshold \in 0 .. MaxScore}

\* the calculator computes the angles of the pose and forwards it: without
\* keypoints the angles are absent
angles_calculate ==
    /\ angle_call # <<>>
    /\ ~angle_call.forwarded
    /\ angle_call' =
          [angle_call EXCEPT
             !.angles = IF angle_call.keypoints = <<>> THEN <<>>
                        ELSE <<joint_angles(angle_call.keypoints[1],
                                            angle_call.confidence_threshold)>>,
             !.forwarded = TRUE]
    /\ UNCHANGED <<pose_active, limits, tracklet_input_queue, input_frames,
                   pose_detectors, pose_output_callbacks, callback_lock,
                   _detection, _running, _callbacks, worker, orch, angles,
                   time_stamp, frame_count, add_calls, remove_calls, slot_log,
                   inferred, forwarded, notified, invoked, processed,
                   _stop_event, stop_call, set_calls, crop_call, onnx_session,
                   session_log, sync_player, player, start_calls>>

InitAngles ==
    /\ Constructed(FALSE, {}, [events |-> 0, frames |-> 0, adds |-> 0])
    /\ crop_call = <<>>
    /\ angle_call \in AngleCalls
    /\ sync_player = <<>>
    /\ player = <<>>
    /\ start_calls = <<>>

NextAngles == angles_calculate

SpecAngles == InitAngles /\ [][NextAngles]_vars

\* get_cropped_image is called with the rect of the square (x, y, s) in
\* pixels, normalized as get_crop_rect does
PadCall(image_width, image_height, x, y, s) ==
    [Call(image_width, image_height,
          normalized(image_width, image_height,
                     centered([x |-> x, y |-> y, w |-> s, h |-> s], s)),
          Zero)
     EXCEPT !.square = <<centered([x |-> x, y |-> y, w |-> s, h |-> s], s)>>,
            !.rect = <<normalized(image_width, image_height,
                                  centered([x |-> x, y |-> y, w |-> s, h |-> s], s))>>]

\* the squares lie in the image, over its edges and corners, and outside it
PadCalls ==
    {PadCall(image_width, image_height, x, y, s) :
        image_width \in 1 .. MaxPadSize, image_height \in 1 .. MaxPadSize,
        x \in -(2 * MaxPadSize) .. (2 * MaxPadSize),
        y \in -(2 * MaxPadSize) .. (2 * MaxPadSize), s \in 1 .. MaxPadSize}

InitPad ==
    /\ Constructed(FALSE, {}, [events |-> 0, frames |-> 0, adds |-> 0])
    /\ crop_call \in PadCalls
    /\ angle_call = <<>>
    /\ sync_player = <<>>
    /\ player = <<>>
    /\ start_calls = <<>>

NextPad == get_cropped_image_call

SpecPad == InitPad /\ [][NextPad]_vars

(***************************************************************************)
(* The SyncPlayer: its run loop, its FFmpegPlayers and its callers.  The   *)
(* values of State and MessageType are the strings of their names.         *)
(***************************************************************************)
\* the folders _get_video_folders found, and the chunks of each
Folders == {"a"}
Chunks == 1

\* an FFmpegPlayer as the SyncPlayer made it, and as it sees it through
\* is_loaded, is_playing and is_stopped
FFmpegPlayer ==
    [loaded |-> FALSE, playing |-> FALSE, stop_called |-> FALSE, stopped |-> FALSE]

\* a SyncPlayer after __init__ and start: run is at its first pass of the
\* loop; ffmpeg holds the FFmpegPlayers made so far, the lists hold their
\* indices, stop_call is where the caller of stop is, plays counts the calls
\* of play
SyncPlayer ==
    [state |-> "IDLE", state_messages |-> <<>>, stop_event |-> FALSE,
     load_chunk |-> -1, load_folder |-> "", ffmpeg |-> <<>>,
     loaders |-> <<>>, players |-> <<>>, closers |-> <<>>,
     pc |-> "run", stop_call |-> "none", plays |-> 0]

\* the index p is in the list
listed(list, p) == \E i \in DOMAIN list : list[i] = p

\* p.stop() for every p of the list
stop_each(ffmpeg, list) ==
    [p \in DOMAIN ffmpeg |->
        IF listed(list, p) THEN [ffmpeg[p] EXCEPT !.stop_called = TRUE]
        ELSE ffmpeg[p]]

\* p.play() for every p of the list
play_each(ffmpeg, list) ==
    [p \in DOMAIN ffmpeg |->
        IF listed(list, p) THEN [ffmpeg[p] EXCEPT !.playing = TRUE]
        ELSE ffmpeg[p]]

\* SyncPlayer._load where files of the next chunk's files exist: a player is
\* made and loads each of them
_load(sp, files) ==
    [sp EXCEPT !.load_chunk = (sp.load_chunk + 1) % (Chunks + 1),
               !.ffmpeg = sp.ffmpeg \o [i \in 1 .. files |-> FFmpegPlayer],
               !.loaders = sp.loaders \o [i \in 1 .. files |-> Len(sp.ffmpeg) + i]]

\* SyncPlayer._start
_start(sp) ==
    [sp EXCEPT !.ffmpeg = play_each(stop_each(sp.ffmpeg, sp.players), sp.loaders),
               !.closers = sp.closers \o sp.players,
               !.players = sp.loaders,
               !.loaders = <<>>]

\* SyncPlayer._stop
_stop(sp) ==
    [sp EXCEPT !.ffmpeg = stop_each(sp.ffmpeg, sp.loaders \o sp.players),
               !.closers = sp.closers \o sp.loaders \o sp.players,
               !.loaders = <<>>,
               !.players = <<>>]

\* the list without its element at index i
removed(list, i) == SubSeq(list, 1, i - 1) \o SubSeq(list, i + 1, Len(list))

\* SyncPlayer.clean, the for statement from index i on: a player that is
\* stopped is removed from the list the statement iterates over, so that the
\* player after it moves to index i and is passed over
RECURSIVE cleaned(_, _, _)
cleaned(ffmpeg, closers, i) ==
    IF i > Len(closers) THEN closers
    ELSE IF ffmpeg[closers[i]].stopped
         THEN cleaned(ffmpeg, removed(closers, i), i + 1)
         ELSE cleaned(ffmpeg, closers, i + 1)

\* SyncPlayer.clean
clean(sp) == [sp EXCEPT !.closers = cleaned(sp.ffmpeg, sp.closers, 1)]

\* SyncPlayer._finished_loading
_finished_loading(sp) == \A i \in DOMAIN sp.loaders : sp.ffmpeg[sp.loaders[i]].loaded

\* SyncPlayer._finished_playing
_finished_playing(sp) == \E i \in DOMAIN sp.players : ~sp.ffmpeg[sp.players[i]].playing

\* SyncPlayer._finished_stopping
_finished_stopping(sp) == \A i \in DOMAIN sp.closers : sp.ffmpeg[sp.closers[i]].stopped

\* run: a message is taken if there is one, and sets the state
got_message(sp) ==
    IF sp.state_messages = <<>> THEN sp
    ELSE IF Head(sp.state_messages).state = "START"
         THEN [sp EXCEPT !.state_messages = Tail(@),
                         !.load_folder = Head(sp.state_messages).value,
                         !.load_chunk = -1,
                         !.state = "LOAD"]
         ELSE [sp EXCEPT !.state_messages = Tail(@), !.state = "STOP"]

\* run: if state == State.LOAD
in_load(sp, files) ==
    IF sp.state = "LOAD" THEN [_load(_stop(sp), files) EXCEPT !.state = "LOADING"]
    ELSE sp

\* run: if state == State.LOADING and self._finished_loading()
in_loading(sp, files) ==
    IF sp.state = "LOADING" /\ _finished_loading(sp)
    THEN [_load(_start(sp), files) EXCEPT !.state = "PLAYING"]
    ELSE sp

\* run: if state == State.PLAYING and self._finished_playing() and
\* self._finished_loading()
in_playing(sp, files) ==
    IF sp.state = "PLAYING" /\ _finished_playing(sp) /\ _finished_loading(sp)
    THEN _load(_start(sp), files)
    ELSE sp

\* run: if state == State.STOP
in_stop(sp) ==
    IF sp.state = "STOP" THEN [_stop(sp) EXCEPT !.state = "STOPPING"] ELSE sp

\* run: if state == State.STOPPING and self._finished_stopping()
in_stopping(sp) ==
    IF sp.state = "STOPPING" /\ _finished_stopping(sp)
    THEN [sp EXCEPT !.state = "IDLE"]
    ELSE sp

\* run: if self.stop_event.is_set() and state == State.IDLE: break
at_break(sp) ==
    IF sp.stop_event /\ sp.state = "IDLE" THEN [sp EXCEPT !.pc = "done"] ELSE sp

\* the number of files a _load finds, as long as players can be made
found(sp) == 0 .. min(MaxFiles, MaxFFmpeg - Len(sp.ffmpeg))

\* SyncPlayer.run: a pass of the loop
SyncPlayer_run ==
    /\ sync_player.pc = "run"
    /\ \E first \in found(sync_player) :
       \E load \in {in_load(got_message(sync_player), first)} :
       \E second \in found(load) :
       \E loading \in {in_loading(load, second)} :
       \E playing \in {in_playing(loading, second)} :
       \E stopping \in {in_stopping(in_stop(playing))} :
          sync_player' = at_break(clean(stopping))
    /\ UNCHANGED <<pose_active, limits, tracklet_input_queue, input_frames,
                   pose_detectors, pose_output_callbacks, callback_lock,
                   _detection, _running, _callbacks, worker, orch, angles,
                   time_stamp, frame_count, add_calls, remove_calls, slot_log,
                   inferred, forwarded, notified, invoked, processed,
                   _stop_event, stop_call, set_calls, crop_call, onnx_session,
                   session_log, angle_call, player, start_calls>>

\* SyncPlayer.play
SyncPlayer_play(value, name) ==
    /\ sync_player.plays < MaxPlays
    /\ sync_player' =
          [sync_player EXCEPT
             !.plays = @ + 1,
             !.state_messages =
                IF value
                THEN IF name \notin Folders THEN @
                     ELSE Append(@, [state |-> "START", value |-> name])
                ELSE Append(@, [state |-> "STOP", value |-> ""])]
    /\ UNCHANGED <<pose_active, limits, tracklet_input_queue, input_frames,
                   pose_detectors, pose_output_callbacks, callback_lock,
                   _detection, _running, _callbacks, worker, orch, angles,
                   time_stamp, frame_count, add_calls, remove_calls, slot_log,
                   inferred, forwarded, notified, invoked, processed,
                   _stop_event, stop_call, set_calls, crop_call, onnx_session,
                   session_log, angle_call, player, start_calls>>

\* SyncPlayer.stop: self.play(False)
SyncPlayer_stop_play ==
    /\ sync_player.stop_call = "none"
    /\ sync_player' =
          [sync_player EXCEPT
             !.stop_call = "set",
             !.state_messages = Append(@, [state |-> "STOP", value |-> ""])]
    /\ UNCHANGED <<pose_active, limits, tracklet_input_queue, input_frames,
                   pose_detectors, pose_output_callbacks, callback_lock,
                   _detection, _running, _callbacks, worker, orch, angles,
                   time_stamp, frame_count, add_calls, remove_calls, slot_log,
                   inferred, forwarded, notified, invoked, processed,
                   _stop_event, stop_call, set_calls, crop_call, onnx_session,
                   session_log, angle_call, player, start_calls>>

\* SyncPlayer.stop: self.stop_event.set()
SyncPlayer_stop_set ==
    /\ sync_player.stop_call = "set"
    /\ sync_player' = [sync_player EXCEPT !.stop_call = "returned",
                                          !.stop_event = TRUE]
    /\ UNCHANGED <<pose_active, limits, tracklet_input_queue, input_frames,
                   pose_detectors, pose_output_callbacks, callback_lock,
                   _detection, _running, _callbacks, worker, orch, angles,
                   time_stamp, frame_count, add_calls, remove_calls, slot_log,
                   inferred, forwarded, notified, invoked, processed,
                   _stop_event, stop_call, set_calls, crop_call, onnx_session,
                   session_log, angle_call, player, start_calls>>

\* an FFmpegPlayer has loaded its file
ffmpeg_loaded(p) ==
    /\ p \in DOMAIN sync_player.ffmpeg
    /\ ~sync_player.ffmpeg[p].loaded
    /\ ~sync_player.ffmpeg[p].stop_called
    /\ sync_player' = [sync_player EXCEPT !.ffmpeg[p].loaded = TRUE]
    /\ UNCHANGED <<pose_active, limits, tracklet_input_queue, input_frames,
                   pose_detectors, pose_output_callbacks, callback_lock,
                   _detection, _running, _callbacks, worker, orch, angles,
                   time_stamp, frame_count, add_calls, remove_calls, slot_log,
                   inferred, forwarded, notified, invoked, processed,
                   _stop_event, stop_call, set_calls, crop_call, onnx_session,
                   session_log, angle_call, player, start_calls>>

\* an FFmpegPlayer that plays has come to the end of its file
ffmpeg_ended(p) ==
    /\ p \in DOMAIN sync_player.ffmpeg
    /\ sync_player.ffmpeg[p].playing
    /\ sync_player' = [sync_player EXCEPT !.ffmpeg[p].playing = FALSE]
    /\ UNCHANGED <<pose_active, limits, tracklet_input_queue, input_frames,
                   pose_detectors, pose_output_callbacks, callback_lock,
                   _detection, _running, _callbacks, worker, orch, angles,
                   time_stamp, frame_count, add_calls, remove_calls, slot_log,
                   inferred, forwarded, notified, invoked, processed,
                   _stop_event, stop_call, set_calls, crop_call, onnx_session,
                   session_log, angle_call, player, start_calls>>

\* an FFmpegPlayer whose stop was called has stopped: is_stopped is True
ffmpeg_stopped(p) ==
    /\ p \in DOMAIN sync_player.ffmpeg
    /\ sync_player.ffmpeg[p].stop_called
    /\ ~sync_player.ffmpeg[p].stopped
    /\ sync_player' = [sync_player EXCEPT !.ffmpeg[p].stopped = TRUE,
                                          !.ffmpeg[p].playing = FALSE]
    /\ UNCHANGED <<pose_active, limits, tracklet_input_queue, input_frames,
                   pose_detectors, pose_output_callbacks, callback_lock,
                   _detection, _running, _callbacks, worker, orch, angles,
                   time_stamp, frame_count, add_calls, remove_calls, slot_log,
                   inferred, forwarded, notified, invoked, processed,
                   _stop_event, stop_call, set_calls, crop_call, onnx_session,
                   session_log, angle_call, player, start_calls>>

InitSync ==
    /\ Constructed(FALSE, {}, [events |-> 0, frames |-> 0, adds |-> 0])
    /\ crop_call = <<>>
    /\ angle_call = <<>>
    /\ sync_player = SyncPlayer
    /\ player = <<>>
    /\ start_calls = <<>>

NextSync ==
    \/ SyncPlayer_run
    \/ \E value \in BOOLEAN, name \in Folders \cup {"none"} : SyncPlayer_play(value, name)
    \/ SyncPlayer_stop_play
    \/ SyncPlayer_stop_set
    \/ \E p \in 1 .. MaxFFmpeg : ffmpeg_loaded(p)
    \/ \E p \in 1 .. MaxFFmpeg : ffmpeg_ended(p)
    \/ \E p \in 1 .. MaxFFmpeg : ffmpeg_stopped(p)

\* the run loop goes on with its passes, the caller of stop goes on to set
\* the event, and a player whose stop was called stops
FairSync ==
    /\ WF_vars(SyncPlayer_run)
    /\ WF_vars(SyncPlayer_stop_set)
    /\ \A p \in 1 .. MaxFFmpeg : WF_vars(ffmpeg_stopped(p))

SpecSync == InitSync /\ [][NextSync]_vars /\ FairSync

(***************************************************************************)
(* The Player: its _play threads and the callers of start and stop.        *)
(***************************************************************************)
\* a Player after __init__: threads holds the place of every _play thread
\* made so far, thread the index of self.thread (0: None), stop_call the
\* place of the caller of stop and joined the thread it joins; starts and
\* stops count the calls
Player ==
    [is_playing |-> FALSE, thread |-> 0, stop_event |-> FALSE, threads |-> <<>>,
     stop_call |-> "none", joined |-> 0, starts |-> 0, stops |-> 0]

\* Player.start: it returns if is_playing, else a new thread is made, the
\* event is cleared and the thread is started
Player_start ==
    /\ player.starts < MaxPlayerStarts
    /\ player' =
          IF player.is_playing
          THEN [player EXCEPT !.starts = @ + 1]
          ELSE [player EXCEPT !.starts = @ + 1,
                              !.is_playing = TRUE,
                              !.threads = Append(@, "probe"),
                              !.thread = Len(player.threads) + 1,
                              !.stop_event = FALSE]
    /\ UNCHANGED <<pose_active, limits, tracklet_input_queue, input_frames,
                   pose_detectors, pose_output_callbacks, callback_lock,
                   _detection, _running, _callbacks, worker, orch, angles,
                   time_stamp, frame_count, add_calls, remove_calls, slot_log,
                   inferred, forwarded, notified, invoked, processed,
                   _stop_event, stop_call, set_calls, crop_call, onnx_session,
                   session_log, angle_call, sync_player, start_calls>>

\* Player.stop up to the join: with no thread made it returns
Player_stop ==
    /\ player.stops < MaxPlayerStops
    /\ player.stop_call = "none"
    /\ player' = [player EXCEPT !.stops = @ + 1,
                                !.is_playing = FALSE,
                                !.stop_event = TRUE,
                                !.joined = player.thread,
                                !.stop_call = IF player.thread = 0 THEN "none"
                                              ELSE "join"]
    /\ UNCHANGED <<pose_active, limits, tracklet_input_queue, input_frames,
                   pose_detectors, pose_output_callbacks, callback_lock,
                   _detection, _running, _callbacks, worker, orch, angles,
                   time_stamp, frame_count, add_calls, remove_calls, slot_log,
                   inferred, forwarded, notified, invoked, processed,
                   _stop_event, stop_call, set_calls, crop_call, onnx_session,
                   session_log, angle_call, sync_player, start_calls>>

\* Player.stop: self.thread.join() returns as the thread has ended
Player_stop_join ==
    /\ player.stop_call = "join"
    /\ player.threads[player.joined] = "done"
    /\ player' = [player EXCEPT !.stop_call = "none"]
    /\ UNCHANGED <<pose_active, limits, tracklet_input_queue, input_frames,
                   pose_detectors, pose_output_callbacks, callback_lock,
                   _detection, _running, _callbacks, worker, orch, angles,
                   time_stamp, frame_count, add_calls, remove_calls, slot_log,
                   inferred, forwarded, notified, invoked, processed,
                   _stop_event, stop_call, set_calls, crop_call, onnx_session,
                   session_log, angle_call, sync_player, start_calls>>

\* Player._play: _get_video_dimensions returns, or raises and the thread ends
_play_probe(t) ==
    /\ t \in DOMAIN player.threads
    /\ player.threads[t] = "probe"
    /\ \E raises \in BOOLEAN :
          player' = IF raises
                    THEN [player EXCEPT !.is_playing = FALSE, !.threads[t] = "done"]
                    ELSE [player EXCEPT !.threads[t] = "while"]
    /\ UNCHANGED <<pose_active, limits, tracklet_input_queue, input_frames,
                   pose_detectors, pose_output_callbacks, callback_lock,
                   _detection, _running, _callbacks, worker, orch, angles,
                   time_stamp, frame_count, add_calls, remove_calls, slot_log,
                   inferred, forwarded, notified, invoked, processed,
                   _stop_event, stop_call, set_calls, crop_call, onnx_session,
                   session_log, angle_call, sync_player, start_calls>>

\* Player._play: while self.is_playing and not self.stop_event.is_set()
_play_while(t) ==
    /\ t \in DOMAIN player.threads
    /\ player.threads[t] = "while"
    /\ player' = [player EXCEPT
                    !.threads[t] = IF player.is_playing /\ ~player.stop_event
                                   THEN "read" ELSE "cleanup"]
    /\ UNCHANGED <<pose_active, limits, tracklet_input_queue, input_frames,
                   pose_detectors, pose_output_callbacks, callback_lock,
                   _detection, _running, _callbacks, worker, orch, angles,
                   time_stamp, frame_count, add_calls, remove_calls, slot_log,
                   inferred, forwarded, notified, invoked, processed,
                   _stop_event, stop_call, set_calls, crop_call, onnx_session,
                   session_log, angle_call, sync_player, start_calls>>

\* Player._play: a frame is read and handed to frame_callback, or the file
\* has ended: is_playing is set False, end_callback is called and the loop
\* is left
_play_read(t) ==
    /\ t \in DOMAIN player.threads
    /\ player.threads[t] = "read"
    /\ \E in_bytes \in BOOLEAN :
          player' = IF in_bytes
                    THEN [player EXCEPT !.threads[t] = "while"]
                    ELSE [player EXCEPT !.is_playing = FALSE,
                                        !.threads[t] = "cleanup"]
    /\ UNCHANGED <<pose_active, limits, tracklet_input_queue, input_frames,
                   pose_detectors, pose_output_callbacks, callback_lock,
                   _detection, _running, _callbacks, worker, orch, angles,
                   time_stamp, frame_count, add_calls, remove_calls, slot_log,
                   inferred, forwarded, notified, invoked, processed,
                   _stop_event, stop_call, set_calls, crop_call, onnx_session,
                   session_log, angle_call, sync_player, start_calls>>

\* Player._play: process.stdout.close(), process.wait(), and the thread ends
_play_cleanup(t) ==
    /\ t \in DOMAIN player.threads
    /\ player.threads[t] = "cleanup"
    /\ player' = [player EXCEPT !.threads[t] = "done"]
    /\ UNCHANGED <<pose_active, limits, tracklet_input_queue, input_frames,
                   pose_detectors, pose_output_callbacks, callback_lock,
                   _detection, _running, _callbacks, worker, orch, angles,
                   time_stamp, frame_count, add_calls, remove_calls, slot_log,
                   inferred, forwarded, notified, invoked, processed,
                   _stop_event, stop_call, set_calls, crop_call, onnx_session,
                   session_log, angle_call, sync_player, start_calls>>

InitPlayer ==
    /\ Constructed(FALSE, {}, [events |-> 0, frames |-> 0, adds |-> 0])
    /\ crop_call = <<>>
    /\ angle_call = <<>>
    /\ sync_player = <<>>
    /\ player = Player
    /\ start_calls = <<>>

NextPlayer ==
    \/ Player_start
    \/ Player_stop
    \/ Player_stop_join
    \/ \E t \in 1 .. MaxPlayerStarts : _play_probe(t)
    \/ \E t \in 1 .. MaxPlayerStarts : _play_while(t)
    \/ \E t \in 1 .. MaxPlayerStarts : _play_read(t)
    \/ \E t \in 1 .. MaxPlayerStarts : _play_cleanup(t)

SpecPlayer == InitPlayer /\ [][NextPlayer]_vars

(***************************************************************************)
(* Reading the histories.                                                  *)
(***************************************************************************)
\* the time stamps of the entries of a log, in order
Stamps(log) == [i \in DOMAIN log |-> log[i].time_stamp]

\* the entries of the log of detector k with the given op, in order
Ops(k, op) == SelectSeq(slot_log[k], LAMBDA e : e.op = op)

\* the time stamps a sequence of time stamps holds
Range(seq) == {seq[i] : i \in DOMAIN seq}

\* time stamp ts reached the angle calculator or the output callbacks
Downstream(ts) ==
    \/ \E k \in DetectorIds : ts \in Range(forwarded[k])
    \/ \E i \in DOMAIN angles.queue : angles.queue[i].time_stamp = ts
    \/ \E i \in DOMAIN notified : notified[i].time_stamp = ts
    \/ \E i \in DOMAIN invoked : invoked[i].time_stamp = ts

(***************************************************************************)
(* C1  Latest-wins.  When pose A and then pose B are submitted to a        *)
(* detector while its thread is busy in RunSession, with no take between   *)
(* them, the next pose the thread takes is B, and A is never taken, never  *)
(* run through RunSession and never seen by the angle calculator or an     *)
(* output callback.                                                        *)
(***************************************************************************)
C1_LatestWins ==
    \A k \in DetectorIds : \A i \in DOMAIN slot_log[k] :
        LET log == slot_log[k]
        IN  (/\ i < Len(log)
             /\ log[i].op = "submit" /\ log[i].busy
             /\ log[i + 1].op = "submit" /\ log[i + 1].busy)
            => /\ i + 2 \in DOMAIN log /\ log[i + 2].op = "take"
                    => log[i + 2].time_stamp = log[i + 1].time_stamp
               /\ \A j \in DOMAIN log :
                    log[j].op = "take" => log[j].time_stamp # log[i].time_stamp
               /\ log[i].time_stamp \notin inferred
               /\ ~Downstream(log[i].time_stamp)

\* A and B were submitted to a busy detector, B was taken next and went
\* through RunSession to an output callback
C1_Witness ==
    \E k \in DetectorIds : \E i \in DOMAIN slot_log[k] :
        LET log == slot_log[k]
        IN  /\ i + 2 \in DOMAIN log
            /\ log[i].op = "submit" /\ log[i].busy
            /\ log[i + 1].op = "submit" /\ log[i + 1].busy
            /\ log[i + 2].op = "take"
            /\ log[i + 1].time_stamp \in inferred
            /\ \E n \in DOMAIN invoked : invoked[n].time_stamp = log[i + 1].time_stamp

(***************************************************************************)
(* C2  Per-identity order preservation.  The poses a detector hands on     *)
(* are in the order of their submits; and of three poses submitted to an   *)
(* idle detector, each taken before the next submit, all three have been   *)
(* handed on, in that order, once the thread is done with the third.       *)
(***************************************************************************)
\* the position of time stamp ts in a sequence of time stamps that holds it
Position(seq, ts) == CHOOSE i \in DOMAIN seq : seq[i] = ts

\* the elements of seq are elements of of, in the order they have in of
OrderPreserving(seq, of) ==
    /\ Range(seq) \subseteq Range(of)
    /\ \A i, j \in DOMAIN seq : i < j => Position(of, seq[i]) < Position(of, seq[j])

C2_OrderPreserved ==
    \A k \in DetectorIds :
        LET log == slot_log[k]
        IN  /\ OrderPreserving(forwarded[k], Stamps(Ops(k, "submit")))
            /\ (/\ Len(log) = 6
                /\ \A i \in {1, 3, 5} :
                      /\ log[i].op = "submit"
                      /\ log[i + 1].op = "take"
                      /\ log[i + 1].time_stamp = log[i].time_stamp
                /\ ~log[1].busy
                /\ worker[k].pc = "loop")
               => forwarded[k] = <<log[1].time_stamp, log[3].time_stamp,
                                   log[5].time_stamp>>

(***************************************************************************)
(* C3  Mailbox capacity one.  The mailbox of a detector holds at most one  *)
(* pending pose and its thread has at most one pose in RunSession, however *)
(* many poses are submitted while it is busy; the PosePipeline thread can  *)
(* always hand over the next tracklet of its queue.                        *)
(***************************************************************************)
C3_MailboxCapacityOne ==
    /\ \A k \in DetectorIds :
          /\ Len(_detection[k]) <= 1
          /\ Len(worker[k].job) <= 1
    /\ (orch.pc = "run" /\ tracklet_input_queue # <<>>) => ENABLED run_process

\* two poses were submitted to a detector while its thread was in RunSession
\* with a third, and one pose is pending
C3_Witness ==
    \E k \in DetectorIds :
        /\ worker[k].pc = "infer"
        /\ Len(_detection[k]) = 1
        /\ \E i \in DOMAIN slot_log[k] :
              /\ i < Len(slot_log[k])
              /\ slot_log[k][i].op = "submit" /\ slot_log[k][i].busy
              /\ slot_log[k][i + 1].op = "submit" /\ slot_log[k][i + 1].busy

(***************************************************************************)
(* C4  Out-of-range identity bypass.  With pose detection on, the pose of  *)
(* a tracklet whose id is no detector key is never put in a mailbox and    *)
(* never run through RunSession; _notify_pose_callback is called with it   *)
(* exactly once, without keypoints; and the PosePipeline thread goes on    *)
(* to the tracklets behind it.                                             *)
(***************************************************************************)
\* the calls of _notify_pose_callback for time stamp ts
Notifications(ts) == {n \in DOMAIN notified : notified[n].time_stamp = ts}

\* the PosePipeline thread is yet to enter _notify_pose_callback for ts
NotifyPending(ts) ==
    orch.pc = "notify_wait" /\ orch.pose[1].time_stamp = ts

\* the PosePipeline thread ended while it handled the i-th tracklet
DiedAt(i) == orch.pc = "dead" /\ i = Len(processed)

C4_OutOfRangeBypass ==
    pose_active =>
        \A i \in DOMAIN processed :
            LET ts == processed[i].time_stamp
            IN  processed[i].id \notin DetectorIds
                => /\ \A k \in DetectorIds :
                        /\ ts \notin Range(Stamps(slot_log[k]))
                        /\ ts \notin Range(Stamps(_detection[k]))
                   /\ ts \notin inferred
                   /\ Cardinality(Notifications(ts)) = IF NotifyPending(ts) THEN 0 ELSE 1
                   /\ \A n \in Notifications(ts) :
                        notified[n].thread = "orch" /\ notified[n].pose = None
                   /\ ~DiedAt(i)

(***************************************************************************)
(* C5  Slot release and reuse.  Once a REMOVED tracklet of identity k has  *)
(* been handled, the pose of a later NEW or TRACKED tracklet with id k is  *)
(* submitted to detector k and to no other, and while it is pending the    *)
(* thread of detector k is there to take it: it has not ended.             *)
(***************************************************************************)
C5_SlotReuse ==
    \A i, j \in DOMAIN processed :
        LET k == processed[i].id
            ts == processed[j].time_stamp
        IN  (/\ i < j
             /\ k \in pose_detectors
             /\ processed[j].id = k
             /\ processed[i].is_final
             /\ is_active(processed[j].tracklet))
            => /\ ts \in Range(Stamps(Ops(k, "submit")))
               /\ \A other \in DetectorIds \ {k} :
                     ts \notin Range(Stamps(slot_log[other]))
               /\ ts \in Range(Stamps(_detection[k])) => worker[k].pc # "dead"

(***************************************************************************)
(* C6  Missing frame.  For a camera no frame was ever stored for, the pose *)
(* of every tracklet of that camera has no image and no crop rect, it is   *)
(* handed to the detector of its id or, without one, to                    *)
(* _notify_pose_callback, and the PosePipeline thread goes on to the       *)
(* tracklets behind it.                                                    *)
(***************************************************************************)
\* the i-th pose was handed to its detector or to _notify_pose_callback
Dispatched(i) ==
    LET ts == processed[i].time_stamp
    IN  IF processed[i].id \in pose_detectors
        THEN ts \in Range(Stamps(Ops(processed[i].id, "submit")))
        ELSE NotifyPending(ts) \/ Notifications(ts) # {}

C6_MissingFrame ==
    \A c \in CamIds :
        input_frames[c] = NoImage
        => \A i \in DOMAIN processed :
              processed[i].cam_id = c
              => /\ processed[i].image = NoImage
                 /\ processed[i].crop_rect = NoRect
                 /\ Dispatched(i)
                 /\ ~DiedAt(i)

(***************************************************************************)
(* C7  Callback failure isolation.  An output callback that raises in      *)
(* _notify_pose_callback does not end the thread that called it, every     *)
(* callback registered at that call is still called once with the pose,    *)
(* and the lock is released.                                               *)
(***************************************************************************)
\* the n-th call of _notify_pose_callback is over
Finished(n) == n < Len(notified) \/ callback_lock = "free"

\* how often the n-th call of _notify_pose_callback called callback
Invocations(n, callback) ==
    Cardinality({i \in DOMAIN invoked :
                    invoked[i].call = n /\ invoked[i].callback = callback})

C7_CallbackFailureIsolated ==
    /\ orch.pc # "dead"
    /\ angles.pc # "dead"
    /\ \A n \in DOMAIN notified :
          Finished(n) => \A callback \in CallbackIds :
                            notified[n].callbacks[callback] > 0
                            => Invocations(n, callback) = 1
    /\ callback_lock # "free" => thread(callback_lock).pc = "notify"

(***************************************************************************)
(* C8  Inference failure containment.  A RunSession that raises does not   *)
(* end the detector thread, and its pose is still handed on.               *)
(***************************************************************************)
C8_InferFailureContained ==
    \A k \in DetectorIds :
        /\ worker[k].pc # "dead"
        /\ worker[k].pc = "loop"
           => \A i \in DOMAIN slot_log[k] :
                 (slot_log[k][i].op = "take" /\ slot_log[k][i].time_stamp \in inferred)
                 => slot_log[k][i].time_stamp \in Range(forwarded[k])

(***************************************************************************)
(* C9  Idempotent registration.  The callback set never holds a callback   *)
(* twice, and once add_pose_callback was called twice or more with a       *)
(* callback, every call of _notify_pose_callback calls it exactly once.    *)
(***************************************************************************)
C9_IdempotentRegistration ==
    /\ \A callback \in CallbackIds : pose_output_callbacks[callback] <= 1
    /\ \A n \in DOMAIN notified :
          Finished(n) => \A callback \in CallbackIds :
                            (/\ notified[n].add_calls[callback] >= 2
                             /\ notified[n].callbacks[callback] > 0)
                            => Invocations(n, callback) = 1

(***************************************************************************)
(* C10  Callback removal.  A callback remove_pose_callback was called with *)
(* is not called by any _notify_pose_callback that starts afterwards.      *)
(***************************************************************************)
C10_CallbackRemoval ==
    \A i \in DOMAIN invoked :
        invoked[i].callback \notin notified[invoked[i].call].remove_calls

(***************************************************************************)
(* C11  Ingress ordering.  The tracklets handed to add_tracklet are        *)
(* processed by the PosePipeline thread one at a time, each once, in the   *)
(* order of the calls: the poses built so far followed by the queue are    *)
(* the tracklets 1, 2, ... in order, and no tracklet is left in the queue  *)
(* of a thread that has ended.                                             *)
(***************************************************************************)
\* the time stamps 1 .. n in order
Arrival(n) == [i \in 1 .. n |-> i]

C11_IngressOrder ==
    /\ Stamps(processed) \o Stamps(tracklet_input_queue) = Arrival(time_stamp)
    /\ orch.pc = "dead" => tracklet_input_queue = <<>>

(***************************************************************************)
(* C12  Final-record shape.  Every pose _process builds has is_final set   *)
(* exactly when the status of its tracklet is REMOVED, and a pose with     *)
(* is_final has no image, also when a frame is stored for its camera.      *)
(***************************************************************************)
C12_FinalRecordShape ==
    \A i \in DOMAIN processed :
        /\ processed[i].is_final <=> processed[i].tracklet.status = "REMOVED"
        /\ processed[i].is_final => processed[i].image = NoImage

\* a final pose was built after a pose of the same camera that got an image
C12_Witness ==
    \E i, j \in DOMAIN processed :
        /\ j < i
        /\ processed[i].is_final
        /\ processed[j].cam_id = processed[i].cam_id
        /\ processed[j].image # NoImage

(***************************************************************************)
(* C13  Pose disabled.  With settings.pose_active false there is no        *)
(* detector, RunSession is never entered, and every tracklet, whatever its *)
(* id and status, gets exactly one _notify_pose_callback from the          *)
(* PosePipeline thread, without keypoints, in the order of arrival.        *)
(***************************************************************************)
\* the time stamps of the poses built, but for one yet to be notified
Settled == SelectSeq(Stamps(processed), LAMBDA ts : ~NotifyPending(ts))

C13_PoseDisabled ==
    ~pose_active =>
        /\ pose_detectors = {}
        /\ inferred = {}
        /\ \A k \in DetectorIds : slot_log[k] = <<>> /\ worker[k].pc = "new"
        /\ Stamps(notified) = Settled
        /\ \A n \in DOMAIN notified :
              notified[n].thread = "orch" /\ notified[n].pose = None
        /\ orch.pc = "dead" => tracklet_input_queue = <<>>

(***************************************************************************)
(* C20  Forwarding of image-less records.  Every pose a detector thread    *)
(* takes from its mailbox is handed on exactly once, also a pose without   *)
(* an image, which skips RunSession: once the thread is back in its loop,  *)
(* what it handed on is what it took.                                      *)
(***************************************************************************)
C20_ImagelessForwarded ==
    \A k \in DetectorIds :
        worker[k].pc = "loop" => forwarded[k] = Stamps(Ops(k, "take"))

(***************************************************************************)
(* C14  Shutdown.  Once stop() has returned on a started pipeline, the     *)
(* PosePipeline thread, every detector thread and the angle calculator     *)
(* thread have ended (RunSession and the callbacks returning).             *)
(***************************************************************************)
C14_Shutdown ==
    stop_call = "returned" =>
        /\ orch.pc \in {"done", "dead"}
        /\ angles.pc \in {"done", "dead"}
        /\ \A k \in pose_detectors : worker[k].pc \in {"done", "dead"}

(***************************************************************************)
(* C15  Registry lifecycle.  Whenever the PosePipeline thread is done with *)
(* a tracklet, the registry has an entry for id k exactly when a tracklet  *)
(* of k was processed and the latest one is not REMOVED: the first         *)
(* tracklet of k creates the entry, the REMOVED one deletes it, and no     *)
(* other id has one.                                                       *)
(***************************************************************************)
\* a tracklet of id k was processed and the latest of them is not REMOVED
Tracked(k) ==
    LET events == SelectSeq(processed, LAMBDA p : p.id = k)
    IN  events # <<>> /\ ~events[Len(events)].is_final

C15_RegistryLifecycle ==
    orch.pc \in {"run", "get", "done"} =>
        \A k \in TrackletIds : k \in PersonRegistry <=> Tracked(k)

(***************************************************************************)
(* C16  FrameCache semantics.  _get_image(c) is the frame of the latest    *)
(* set_image(c, VIDEO, .) whatever was stored before, or None if there was *)
(* none; a pose that is built gets that frame (if its tracklet is active)  *)
(* and leaves the stored frames as they are, so that the next pose gets    *)
(* the same frame unless a set_image came between.                         *)
(***************************************************************************)
\* the frame of the latest set_image(c, VIDEO, .) of the calls, or NoImage
LastVideo(calls, c) ==
    LET video == SelectSeq(calls, LAMBDA e : e.id = c /\ e.frame_type = "VIDEO")
    IN  IF video = <<>> THEN NoImage ELSE video[Len(video)].image

C16_FrameCache ==
    [][/\ \A c \in CamIds : _get_image(input_frames', c) = LastVideo(set_calls', c)
       /\ Len(processed') > Len(processed) =>
             LET pose == processed'[Len(processed')]
             IN  /\ input_frames' = input_frames
                 /\ is_active(pose.tracklet)
                    => pose.image = LastVideo(set_calls, pose.cam_id)]_vars

\* two poses in a row got the same frame, and after a set_image that
\* replaced it a third pose got the new one
C16_Witness ==
    /\ Len(processed) = 3
    /\ processed[1].image # NoImage
    /\ processed[2].image = processed[1].image
    /\ processed[3].image > processed[2].image
    /\ processed[3].cam_id = processed[2].cam_id

(***************************************************************************)
(* C17  Square crop.  For every image size, every roi with width and       *)
(* height above 0 and every expansion of 0 or more, the square             *)
(* get_crop_rect computes is as wide as it is high in pixels, also for a   *)
(* roi that is not square and a square that leaves the image.             *)
(***************************************************************************)
C17_SquareCrop ==
    (crop_call # <<>> /\ crop_call.rect # <<>>) =>
        crop_call.square[1].crop_w = crop_call.square[1].crop_h

\* get_crop_rect returned for a roi that is not square in pixels, with a
\* square that leaves the image
C17_Witness ==
    /\ crop_call # <<>> /\ crop_call.rect # <<>>
    /\ LET img == roi_pixels(crop_call.image_width, crop_call.image_height,
                             crop_call.roi)
           square == crop_call.square[1]
       IN  /\ img.w # img.h
           /\ square.crop_w > 0
           /\ \/ square.crop_x < 0
              \/ square.crop_y + square.crop_h > crop_call.image_height

(***************************************************************************)
(* C18  Crop scenario.  For roi {x: 0.4, y: 0.4, width: 0.2, height: 0.1}  *)
(* on a 1000 x 1000 image with expansion 0.0 the side of the square is 200 *)
(* px, its center is pixel (500, 450), and the rect returned is            *)
(* {x: 0.4, y: 0.35, width: 0.2, height: 0.2}: the square of side 200      *)
(* around (500, 450) has its left side at pixel 400.                       *)
(***************************************************************************)
\* get_crop_rect has returned for the scenario
ScenarioReturned ==
    /\ crop_call # <<>> /\ crop_call.rect # <<>>
    /\ crop_call.image_width = ScenarioCall.image_width
    /\ crop_call.image_height = ScenarioCall.image_height
    /\ crop_call.roi = ScenarioCall.roi
    /\ crop_call.expansion = ScenarioCall.expansion

\* side 200 px and center (500, 450)
ScenarioSquare ==
    LET square == crop_call.square[1]
    IN  /\ square.crop_w = 200 /\ square.crop_h = 200
        /\ square.crop_center_x = 500 /\ square.crop_center_y = 450

C18_CropScenario ==
    ScenarioReturned =>
        /\ ScenarioSquare
        /\ Equals(crop_call.rect[1].x, 4, 10)
        /\ Equals(crop_call.rect[1].y, 35, 100)
        /\ Equals(crop_call.rect[1].width, 2, 10)
        /\ Equals(crop_call.rect[1].height, 2, 10)

\* the scenario was computed
C18_Witness == ScenarioReturned /\ crop_call.square[1].crop_x = 400

\* the claim as stated: the rect returned is {x: 0.3, y: 0.35, width: 0.2,
\* height: 0.2}
C18_CropScenarioStated ==
    ScenarioReturned =>
        /\ ScenarioSquare
        /\ Equals(crop_call.rect[1].x, 3, 10)
        /\ Equals(crop_call.rect[1].y, 35, 100)
        /\ Equals(crop_call.rect[1].width, 2, 10)
        /\ Equals(crop_call.rect[1].height, 2, 10)

(***************************************************************************)
(* C19  Degenerate roi.  With a frame stored, an active tracklet whose roi *)
(* has a width or a height of 0 pixels gets a pose without an image, which *)
(* is handed on; the failed crop raises nothing out of the PosePipeline    *)
(* thread: every tracklet it took from the queue has its pose.             *)
(***************************************************************************)
\* the roi has a width or a height of 0 pixels in the frames
Degenerate(roi) ==
    LET img == roi_pixels(FrameWidth, FrameHeight, roi)
    IN  img.w = 0 \/ img.h = 0

C19_DegenerateRoi ==
    /\ \A i \in DOMAIN processed :
          Degenerate(processed[i].tracklet.roi)
          => processed[i].image = NoImage /\ Dispatched(i)
    /\ Len(processed) + Len(tracklet_input_queue) = time_stamp

(***************************************************************************)
(* C25  Notifying thread.  Every call of an output callback is made by the *)
(* angle calculator thread, for poses that went through a detector and for *)
(* poses of tracklets without one alike; none is made by the PosePipeline  *)
(* thread or by a detector thread.                                         *)
(***************************************************************************)
C25_NotifyingThread ==
    \A i \in DOMAIN invoked : invoked[i].thread = "angles"

(***************************************************************************)
(* C27  Slot pool shape and exclusivity.  With pose detection on, the      *)
(* detectors have the keys 0 .. max_players - 1 at all times; a pose of    *)
(* id k is submitted to detector k only, so that what a detector holds in  *)
(* its mailbox or runs through RunSession has the id that is its key, and  *)
(* poses of two ids are never in one detector.                             *)
(***************************************************************************)
C27_SlotPool ==
    /\ pose_active => pose_detectors = 0 .. (max_players - 1)
    /\ ~pose_active => pose_detectors = {}
    /\ \A k \in DetectorIds :
          /\ \A i \in DOMAIN _detection[k] : _detection[k][i].id = k
          /\ \A i \in DOMAIN worker[k].job : worker[k].job[i].id = k
          /\ \A i \in DOMAIN processed :
                processed[i].time_stamp \in Range(Stamps(slot_log[k]))
                => processed[i].id = k

\* the poses of two ids are in RunSession at once, each in its detector
C27_Witness ==
    \E j, k \in pose_detectors :
        /\ j # k
        /\ worker[j].pc = "infer" /\ worker[j].job[1].id = j
        /\ worker[k].pc = "infer" /\ worker[k].job[1].id = k

(***************************************************************************)
(* C28  Crop only for active tracklets.  A pose has an image and a crop    *)
(* rect only if its tracklet is NEW or TRACKED and the image is a frame    *)
(* stored for its camera; the pose of a LOST or REMOVED tracklet has no    *)
(* image and no crop rect, also with a frame stored, and it is handed to   *)
(* the detector of its id or to _notify_pose_callback all the same.        *)
(***************************************************************************)
\* image is a frame a set_image call stored for camera c
StoredFrame(c, image) ==
    \E n \in DOMAIN set_calls :
        /\ set_calls[n].id = c
        /\ set_calls[n].frame_type = "VIDEO"
        /\ set_calls[n].image = image

C28_CropOnlyActive ==
    \A i \in DOMAIN processed :
        LET pose == processed[i]
        IN  /\ (pose.image # NoImage \/ pose.crop_rect # NoRect)
               => /\ pose.tracklet.status \in {"NEW", "TRACKED"}
                  /\ StoredFrame(pose.cam_id, pose.image)
            /\ pose.tracklet.status \in {"LOST", "REMOVED"}
               => /\ pose.image = NoImage
                  /\ pose.crop_rect = NoRect
                  /\ Dispatched(i)

\* a LOST tracklet was processed after a pose of its camera got an image,
\* and its pose was handed to its detector
C28_Witness ==
    \E i, j \in DOMAIN processed :
        /\ j < i
        /\ processed[i].tracklet.status = "LOST"
        /\ processed[i].id \in pose_detectors
        /\ processed[j].cam_id = processed[i].cam_id
        /\ processed[j].image # NoImage
        /\ Dispatched(i)

(***************************************************************************)
(* C23  One dispatch per event.  Every tracklet the PosePipeline thread    *)
(* takes from its queue gets exactly one pose, and the thread does exactly *)
(* one thing with it: it submits it to the detector of its id if there is  *)
(* one, once, and calls _notify_pose_callback with it if there is none,    *)
(* once; never both and never neither.                                     *)
(***************************************************************************)
\* how often the pose of time stamp ts was submitted to detector k
Submits(k, ts) ==
    Cardinality({n \in DOMAIN slot_log[k] :
                    slot_log[k][n].op = "submit" /\ slot_log[k][n].time_stamp = ts})

\* how often the PosePipeline thread went to _notify_pose_callback with ts
DirectNotifies(ts) ==
    Cardinality({n \in Notifications(ts) : notified[n].thread = "orch"})
    + (IF NotifyPending(ts) THEN 1 ELSE 0)

C23_OneDispatch ==
    /\ \A ts \in 1 .. time_stamp :
          \/ ts \in Range(Stamps(tracklet_input_queue))
          \/ Cardinality({i \in DOMAIN processed : processed[i].time_stamp = ts}) = 1
    /\ \A i \in DOMAIN processed :
          LET ts == processed[i].time_stamp
              id == processed[i].id
          IN  IF id \in pose_detectors
              THEN /\ Submits(id, ts) = 1
                   /\ \A k \in DetectorIds \ {id} : Submits(k, ts) = 0
                   /\ DirectNotifies(ts) = 0
              ELSE /\ \A k \in DetectorIds : Submits(k, ts) = 0
                   /\ DirectNotifies(ts) = 1

(***************************************************************************)
(* C24  Orchestrator never waits on inference.  Whatever the detector      *)
(* threads are doing, RunSession included, the PosePipeline thread can     *)
(* take the next tracklet of its queue and submit its pose when the id has *)
(* a detector; and the timed get on the queue is the only place where the  *)
(* thread waits: once it has taken a tracklet it needs nothing that        *)
(* another thread holds.                                                   *)
(***************************************************************************)
C24_NeverWaitsOnInference ==
    /\ (/\ orch.pc \in (IF _stop_event THEN {"get"} ELSE {"run", "get"})
        /\ tracklet_input_queue # <<>>
        /\ Head(tracklet_input_queue).id \in pose_detectors)
       => ENABLED run_process
    /\ orch.pc = "notify_wait" => ENABLED notify_enter("orch")

(***************************************************************************)
(* C29  In-flight job at shutdown.  When stop() reaches a detector whose   *)
(* thread is in RunSession, that RunSession is not cut short: the thread   *)
(* stays in it with the same pose until it returns, hands the pose on and  *)
(* only then ends; and from that stop on the thread takes nothing from its *)
(* mailbox, so a pose pending there stays unprocessed.                     *)
(***************************************************************************)
\* the time stamp of the latest take of detector k before entry i of its log
InFlight(k, i) ==
    LET takes == SelectSeq(SubSeq(slot_log[k], 1, i), LAMBDA e : e.op = "take")
    IN  takes[Len(takes)].time_stamp

C26_SessionInitOnce ==
    /\ session_log.loads <= 1
    /\ onnx_session = session_log.loads
    /\ \A session \in session_log.runs : session = onnx_session

(***************************************************************************)
(* C21  Terminal record delivery.  With no stop, the final pose of every   *)
(* REMOVED tracklet whose id has a detector is eventually passed to the    *)
(* output callbacks, without going through RunSession, in every            *)
(* interleaving, also when a later tracklet of the same id is submitted    *)
(* before the detector thread has taken the final pose.                    *)
(***************************************************************************)
\* _process built the final pose of time stamp ts for an id with a detector
FinalBuilt(ts) ==
    \E i \in DOMAIN processed :
        /\ processed[i].time_stamp = ts
        /\ processed[i].is_final
        /\ processed[i].id \in pose_detectors

\* an output callback was called with the pose of time stamp ts
Delivered(ts) == \E n \in DOMAIN invoked : invoked[n].time_stamp = ts

C21_TerminalDelivery ==
    \A ts \in 1 .. MaxLiveEvents :
        FinalBuilt(ts) ~> (Delivered(ts) /\ ts \notin inferred)

(***************************************************************************)
(* C22  Most-recent guarantee.  With no stop and RunSession returning, the *)
(* pose a free detector thread finds in its mailbox is eventually handed   *)
(* on downstream; and once no more poses are submitted to a detector, the  *)
(* last pose submitted to it is eventually passed to the output callbacks. *)
(***************************************************************************)
\* the thread of detector k took the pose of time stamp ts from its mailbox
Taken(k, ts) == ts \in Range(Stamps(Ops(k, "take")))

\* every tracklet of the run was processed and the last pose submitted to
\* detector k is the one of time stamp ts
LastSubmitted(k, ts) ==
    /\ time_stamp = limits.events
    /\ tracklet_input_queue = <<>>
    /\ Ops(k, "submit") # <<>>
    /\ Ops(k, "submit")[Len(Ops(k, "submit"))].time_stamp = ts

C22_MostRecent ==
    \A k \in DetectorIds : \A ts \in 1 .. MaxLiveEvents :
        /\ Taken(k, ts) ~> (ts \in Range(forwarded[k]))
        /\ LastSubmitted(k, ts) ~> Delivered(ts)

\* C30: the crop rect that is stored is the square as it was computed,
\* normalized and not clamped to the frame, and converting it back to pixels,
\* as get_cropped_image does, gives the top left corner and the sides of that
\* square
C30_UnclampedCropRect ==
    (crop_call # <<>> /\ crop_call.cut # <<>>) =>
        LET square == crop_call.square[1]
            rect == crop_call.rect[1]
            cut == crop_call.cut[1]
        IN  /\ rect = Rect(Fraction(square.crop_x, crop_call.image_width),
                           Fraction(square.crop_y, crop_call.image_height),
                           Fraction(square.crop_w, crop_call.image_width),
                           Fraction(square.crop_h, crop_call.image_height))
            /\ cut.x = square.crop_x
            /\ cut.y = square.crop_y
            /\ cut.w = square.crop_w
            /\ cut.h = square.crop_h

\* C31: for every image and every square of side s > 0, in the image, over
\* its edges or outside it, what get_cropped_image extracts measures s x s
\* with its borders, and the part taken from the image is the intersection
\* of the square with the image
C31_PaddedExtractionSize ==
    (crop_call # <<>> /\ crop_call.crop # <<>>) =>
        LET square == crop_call.square[1]
            crop == crop_call.crop[1]
            left == max(0, min(square.crop_x, crop_call.image_width))
            right == max(left, min(square.crop_x + square.crop_w,
                                   crop_call.image_width))
            top == max(0, min(square.crop_y, crop_call.image_height))
            bottom == max(top, min(square.crop_y + square.crop_h,
                                   crop_call.image_height))
        IN  /\ crop.width = square.crop_w
            /\ crop.height = square.crop_h
            /\ crop.cols.stop - crop.cols.start = right - left
            /\ crop.rows.stop - crop.rows.start = bottom - top
            /\ (right > left /\ bottom > top) =>
                  /\ crop.cols = [start |-> left, stop |-> right]
                  /\ crop.rows = [start |-> top, stop |-> bottom]

\* C32: the angles of a forwarded pose have an entry for a joint exactly when
\* each of its three keypoints has a score of at least the threshold, a score
\* equal to it included; a pose without keypoints is forwarded without angles
C32_AngleConfidenceGating ==
    (angle_call # <<>> /\ angle_call.forwarded) =>
        IF angle_call.keypoints = <<>> THEN angle_call.angles = <<>>
        ELSE /\ angle_call.angles # <<>>
             /\ \A joint \in DOMAIN AngleJoints :
                   joint \in angle_call.angles[1]
                   <=> \A i \in 1 .. 3 :
                          angle_call.keypoints[1][AngleJoints[joint][i]]
                             >= angle_call.confidence_threshold

\* a pose is forwarded with an angle for a joint that has a keypoint with a
\* score equal to the threshold, and without an angle for another joint
C32_Witness ==
    /\ angle_call # <<>>
    /\ angle_call.forwarded
    /\ angle_call.keypoints # <<>>
    /\ angle_call.angles # <<>>
    /\ \E joint \in angle_call.angles[1] :
          \E i \in 1 .. 3 :
             angle_call.keypoints[1][AngleJoints[joint][i]]
                = angle_call.confidence_threshold
    /\ \E joint \in DOMAIN AngleJoints : joint \notin angle_call.angles[1]

\* C33: a pose submitted to a detector is taken by its thread at most once;
\* none is taken that was not submitted, none is handed on twice or without
\* having been taken, none reaches the output twice, and a detector hands on
\* no more poses than were submitted to it
C33_AtMostOnceConsumption ==
    /\ \A k \in DetectorIds :
          LET takes == Stamps(Ops(k, "take"))
              submits == Stamps(Ops(k, "submit"))
          IN  /\ \A i, j \in DOMAIN takes : takes[i] = takes[j] => i = j
              /\ Range(takes) \subseteq Range(submits)
              /\ \A i, j \in DOMAIN forwarded[k] :
                    forwarded[k][i] = forwarded[k][j] => i = j
              /\ Range(forwarded[k]) \subseteq Range(takes)
              /\ Len(forwarded[k]) <= Len(submits)
    /\ \A i, j \in DOMAIN notified :
          notified[i].time_stamp = notified[j].time_stamp => i = j

\* a detector has taken two poses and handed one on, and a third that was
\* submitted to it was not taken
C33_Witness ==
    \E k \in DetectorIds :
        /\ Len(Ops(k, "take")) >= 2
        /\ Len(forwarded[k]) >= 1
        /\ Len(Ops(k, "submit")) > Len(Ops(k, "take"))
        /\ _detection[k] = <<>>

\* a thread is in the iteration of _notify_pose_callback
Notifying(t) == thread(t).pc = "notify"

\* the threads that iterate hold the callback lock, so there is at most one
Serialized ==
    /\ \A t \in Threads : Notifying(t) => callback_lock = t
    /\ ~(Notifying("orch") /\ Notifying("angles"))

\* C34: the callback lock is held for the whole of each notify: at most one
\* thread at a time is calling output callbacks, and neither add_pose_callback
\* nor stop changes the callback set while a notify iterates over it
C34_SerializedNotification ==
    [][/\ Serialized
       /\ Serialized'
       /\ (\E t \in Threads : Notifying(t))
             => pose_output_callbacks' = pose_output_callbacks]_vars

\* the angle calculator is calling the callbacks while the PosePipeline
\* thread waits to notify and a caller has a callback to add
C34_Witness ==
    /\ Notifying("angles")
    /\ angles.todo # <<>>
    /\ orch.pc = "notify_wait"
    /\ set_len(add_calls) < limits.adds

\* stop() has cleared the callback set
Cleared == stop_call \notin {"none", "join"}

\* the step of stop() that clears the callback set
Clearing == stop_call = "join" /\ stop_call' = "detectors"

\* C35: stop() empties the callback set after the PosePipeline thread has
\* ended and before any detector or the angle calculator is told to stop, and
\* from then on a callback is invoked only if it is in the set, that is if it
\* was added after the clear: no registration made before is used again
C35_NoDeliveryAfterClear ==
    [][/\ Clearing
          => /\ orch.pc \in {"done", "dead"}
             /\ set_len(pose_output_callbacks') = 0
             /\ \A k \in pose_detectors :
                   \A i \in DOMAIN slot_log[k] : slot_log[k][i].op # "stop"
             /\ angles.pc # "done"
       /\ Cleared /\ Len(invoked') > Len(invoked)
          => pose_output_callbacks[invoked'[Len(invoked')].callback] > 0]_vars

\* after the clear a pose that came out of inference was notified by the
\* angle calculator to an empty set, where callbacks had been invoked before
C35_Witness ==
    /\ Cleared
    /\ Len(invoked) > 0
    /\ \E i \in DOMAIN notified :
          /\ notified[i].thread = "angles"
          /\ set_len(notified[i].callbacks) = 0

\* C36: a set_image(c, VIDEO, image) makes image the stored frame of camera c
\* and leaves the stored frame of every other camera as it is, a set_image
\* with another frame type leaves every stored frame as it is, and no other
\* step (_get_image and the processing of tracklets among them) changes a
\* stored frame
C36_FrameCondition ==
    [][IF Len(set_calls') > Len(set_calls)
       THEN LET call == set_calls'[Len(set_calls')]
            IN  IF call.frame_type = "VIDEO"
                THEN /\ input_frames'[call.id] = call.image
                     /\ \A c \in DOMAIN input_frames \ {call.id} :
                           input_frames'[c] = input_frames[c]
                ELSE input_frames' = input_frames
       ELSE input_frames' = input_frames]_vars

\* two cameras hold a frame, a frame of another type came for a camera after
\* its video frame, and a pose was built from the stored frames
C36_Witness ==
    /\ \E i, j, k \in DOMAIN set_calls :
          /\ i < j
          /\ set_calls[i].frame_type = "VIDEO"
          /\ set_calls[j].frame_type # "VIDEO"
          /\ set_calls[j].id = set_calls[i].id
          /\ set_calls[k].frame_type = "VIDEO"
          /\ set_calls[k].id # set_calls[i].id
          /\ input_frames[set_calls[i].id] = set_calls[i].image
          /\ input_frames[set_calls[k].id] = set_calls[k].image
    /\ \E n \in DOMAIN processed : processed[n].image # NoImage

\* the PosePipeline thread runs
Running == orch.pc \notin {"new", "done", "dead"}

\* C37: a call of start while the PosePipeline thread is alive returns and
\* changes nothing: no thread is started or started again, no callback is
\* added, every variable of the pipeline is as it was
C37_IdempotentStart ==
    [][Len(start_calls') > Len(start_calls) /\ Running
          => /\ start_calls'[Len(start_calls')] = "returned"
             /\ UNCHANGED <<pose_active, tracklet_input_queue, input_frames,
                            pose_detectors, pose_output_callbacks,
                            callback_lock, _detection, _running, _callbacks,
                            worker, orch, angles, _stop_event, stop_call,
                            onnx_session>>]_vars

\* start was called twice while the PosePipeline thread was at work with a
\* tracklet, and both calls returned
C37_Witness ==
    /\ Len(start_calls) = 3
    /\ start_calls[2] = "returned"
    /\ start_calls[3] = "returned"
    /\ Running
    /\ Len(processed) > 0

\* the run loop of the SyncPlayer has left its loop
Exited == sync_player.pc = "done"

\* the SyncPlayer is idle and holds no loader and no player
Idle ==
    /\ sync_player.state = "IDLE"
    /\ sync_player.loaders = <<>>
    /\ sync_player.players = <<>>

\* C38: once stop has put its STOP message and set the stop event, whatever
\* the state of the run loop and the messages in its queue, the loop comes to
\* IDLE with no loader and no player and leaves; and it never leaves in
\* another state
C38_SyncPlayerShutdown ==
    /\ [](Exited => Idle)
    /\ sync_player.stop_event ~> (Exited /\ Idle)

\* the _play threads of the Player that are alive
AliveThreads == {t \in DOMAIN player.threads : player.threads[t] # "done"}

\* C39: a call of start while is_playing is True changes nothing, a Player
\* never has two _play threads alive at the same time, and stop returns only
\* after the thread it joined has ended
C39_SinglePlaybackThread ==
    [][/\ Cardinality(AliveThreads') <= 1
       /\ player'.starts > player.starts /\ player.is_playing
          => /\ player'.threads = player.threads
             /\ player'.thread = player.thread
             /\ player'.is_playing
             /\ player'.stop_event = player.stop_event
       /\ player.stop_call = "join" /\ player'.stop_call = "none"
          => player.threads[player.joined] = "done"]_vars

====
